---- MODULE Spec2Model ----
(***************************************************************************)
(* Model of src/app.py: the cached IMF fetch obtener_datos_fmi, the chart  *)
(* helper crear_grafico_comparativo and the twelve panel blocks of the     *)
(* dashboard script.                                                       *)
(*                                                                         *)
(* Text is a sequence of one-character strings, so that int(), the JSON    *)
(* number reader and pd.to_numeric are computed from the characters.  A    *)
(* character that has no escape and is not printable ASCII is written by   *)
(* its code point: "U+000B" is the vertical tab, "U+00A0" the no-break     *)
(* space, "U+FF12" the fullwidth digit two.                                *)
(*                                                                         *)
(* A number is a fixed-point integer with FracDigits decimal digits        *)
(* (further digits are cut off), an infinity, NaN, or a Python int beyond  *)
(* the range of a double.  Finite numbers and years stay below 2^31.       *)
(*                                                                         *)
(* Time is in milliseconds.  A call of obtener_datos_fmi is a sequence of   *)
(* steps: the lookup, which sends the request on a miss; the end of the    *)
(* body, which writes the entry; and the return through the spinner of the *)
(* cache.  Streamlit ends a script run that has a rerun pending where the   *)
(* script next sends an element to the page, so a call can end at st.error *)
(* or at the spinner without returning.  The sessions share the cache.     *)
(***************************************************************************)
EXTENDS Integers, Sequences, FiniteSets, TLC

VARIABLES
  upstream,              \* what the IMF API answers to a request at this moment
  argset,                \* the argument tuples of the direct calls of a behaviour
  expiry,                \* whether the installed cachetools still serves an entry at
                         \* the instant it expires: "exclusive" (5.x) or "inclusive" (4.x)
  cache,                 \* st.cache_data store of obtener_datos_fmi: key -> entry
  now,                   \* the clock of the cache, in milliseconds
  ticks,                 \* clock advances between calls so far
  begun,                 \* direct calls begun so far
  flight,                \* per session, the call of obtener_datos_fmi it is inside
  calls,                 \* log of the calls begun (SpecRender: by the current block)
  pc,                    \* position of the script: "idle", "header", "loop", "wait",
                         \* "exit", "chart", "expander", "table", "footer", "info",
                         \* "done", "aborted"
  panel,                 \* number of the block the script is in, 1..12
  bloque,                \* the for loop of the block: country index, list built so far
  pass,                  \* script runs started so far
  paises_seleccionados,  \* sidebar multiselect
  anio_inicio,           \* sidebar slider, lower end
  anio_fin,              \* sidebar slider, upper end
  out                    \* what the current block sent to the page

scriptvars == << pc, panel, bloque, pass, paises_seleccionados, anio_inicio, anio_fin, out >>
fixed == << argset, expiry >>
vars == << upstream, fixed, cache, now, ticks, begun, flight, calls, scriptvars >>

-----------------------------------------------------------------------------
(* Bounds of the model *)

FracDigits == 2     \* decimal digits kept by the fixed-point numbers
MaxPoints  == 3     \* year entries in an enumerated upstream series
MaxCalls   == 3     \* direct calls of obtener_datos_fmi in SpecCache
MaxTicks   == 2     \* clock advances
MaxPasses  == 2     \* script runs in SpecRender
MaxInterrupts == 1  \* direct calls that a rerun ends, in SpecFetch and SpecCache

-----------------------------------------------------------------------------
(* Text and numbers *)

\* The ASCII digits, the only ones the JSON reader and pd.to_numeric read.
Digits == {"0", "1", "2", "3", "4", "5", "6", "7", "8", "9"}

DigitText(d) ==
  CASE d = 0 -> "0" [] d = 1 -> "1" [] d = 2 -> "2" [] d = 3 -> "3" [] d = 4 -> "4"
    [] d = 5 -> "5" [] d = 6 -> "6" [] d = 7 -> "7" [] d = 8 -> "8" [] d = 9 -> "9"

\* The other decimal digits of Unicode (category Nd), which int() reads as
\* well: DecimalDigits[d + 1] holds the ones of value d.
DecimalDigits ==
  <<
    { "U+0660", "U+06F0", "U+07C0", "U+0966", "U+09E6", "U+0A66", "U+0AE6",
      "U+0B66", "U+0BE6", "U+0C66", "U+0CE6", "U+0D66", "U+0DE6", "U+0E50",
      "U+0ED0", "U+0F20", "U+1040", "U+1090", "U+17E0", "U+1810", "U+1946",
      "U+19D0", "U+1A80", "U+1A90", "U+1B50", "U+1BB0", "U+1C40", "U+1C50",
      "U+A620", "U+A8D0", "U+A900", "U+A9D0", "U+A9F0", "U+AA50", "U+ABF0",
      "U+FF10", "U+104A0", "U+10D30", "U+11066", "U+110F0", "U+11136",
      "U+111D0", "U+112F0", "U+11450", "U+114D0", "U+11650", "U+116C0",
      "U+11730", "U+118E0", "U+11950", "U+11C50", "U+11D50", "U+11DA0",
      "U+16A60", "U+16AC0", "U+16B50", "U+1D7CE", "U+1D7D8", "U+1D7E2",
      "U+1D7EC", "U+1D7F6", "U+1E140", "U+1E2F0", "U+1E950", "U+1FBF0" },
    { "U+0661", "U+06F1", "U+07C1", "U+0967", "U+09E7", "U+0A67", "U+0AE7",
      "U+0B67", "U+0BE7", "U+0C67", "U+0CE7", "U+0D67", "U+0DE7", "U+0E51",
      "U+0ED1", "U+0F21", "U+1041", "U+1091", "U+17E1", "U+1811", "U+1947",
      "U+19D1", "U+1A81", "U+1A91", "U+1B51", "U+1BB1", "U+1C41", "U+1C51",
      "U+A621", "U+A8D1", "U+A901", "U+A9D1", "U+A9F1", "U+AA51", "U+ABF1",
      "U+FF11", "U+104A1", "U+10D31", "U+11067", "U+110F1", "U+11137",
      "U+111D1", "U+112F1", "U+11451", "U+114D1", "U+11651", "U+116C1",
      "U+11731", "U+118E1", "U+11951", "U+11C51", "U+11D51", "U+11DA1",
      "U+16A61", "U+16AC1", "U+16B51", "U+1D7CF", "U+1D7D9", "U+1D7E3",
      "U+1D7ED", "U+1D7F7", "U+1E141", "U+1E2F1", "U+1E951", "U+1FBF1" },
    { "U+0662", "U+06F2", "U+07C2", "U+0968", "U+09E8", "U+0A68", "U+0AE8",
      "U+0B68", "U+0BE8", "U+0C68", "U+0CE8", "U+0D68", "U+0DE8", "U+0E52",
      "U+0ED2", "U+0F22", "U+1042", "U+1092", "U+17E2", "U+1812", "U+1948",
      "U+19D2", "U+1A82", "U+1A92", "U+1B52", "U+1BB2", "U+1C42", "U+1C52",
      "U+A622", "U+A8D2", "U+A902", "U+A9D2", "U+A9F2", "U+AA52", "U+ABF2",
      "U+FF12", "U+104A2", "U+10D32", "U+11068", "U+110F2", "U+11138",
      "U+111D2", "U+112F2", "U+11452", "U+114D2", "U+11652", "U+116C2",
      "U+11732", "U+118E2", "U+11952", "U+11C52", "U+11D52", "U+11DA2",
      "U+16A62", "U+16AC2", "U+16B52", "U+1D7D0", "U+1D7DA", "U+1D7E4",
      "U+1D7EE", "U+1D7F8", "U+1E142", "U+1E2F2", "U+1E952", "U+1FBF2" },
    { "U+0663", "U+06F3", "U+07C3", "U+0969", "U+09E9", "U+0A69", "U+0AE9",
      "U+0B69", "U+0BE9", "U+0C69", "U+0CE9", "U+0D69", "U+0DE9", "U+0E53",
      "U+0ED3", "U+0F23", "U+1043", "U+1093", "U+17E3", "U+1813", "U+1949",
      "U+19D3", "U+1A83", "U+1A93", "U+1B53", "U+1BB3", "U+1C43", "U+1C53",
      "U+A623", "U+A8D3", "U+A903", "U+A9D3", "U+A9F3", "U+AA53", "U+ABF3",
      "U+FF13", "U+104A3", "U+10D33", "U+11069", "U+110F3", "U+11139",
      "U+111D3", "U+112F3", "U+11453", "U+114D3", "U+11653", "U+116C3",
      "U+11733", "U+118E3", "U+11953", "U+11C53", "U+11D53", "U+11DA3",
      "U+16A63", "U+16AC3", "U+16B53", "U+1D7D1", "U+1D7DB", "U+1D7E5",
      "U+1D7EF", "U+1D7F9", "U+1E143", "U+1E2F3", "U+1E953", "U+1FBF3" },
    { "U+0664", "U+06F4", "U+07C4", "U+096A", "U+09EA", "U+0A6A", "U+0AEA",
      "U+0B6A", "U+0BEA", "U+0C6A", "U+0CEA", "U+0D6A", "U+0DEA", "U+0E54",
      "U+0ED4", "U+0F24", "U+1044", "U+1094", "U+17E4", "U+1814", "U+194A",
      "U+19D4", "U+1A84", "U+1A94", "U+1B54", "U+1BB4", "U+1C44", "U+1C54",
      "U+A624", "U+A8D4", "U+A904", "U+A9D4", "U+A9F4", "U+AA54", "U+ABF4",
      "U+FF14", "U+104A4", "U+10D34", "U+1106A", "U+110F4", "U+1113A",
      "U+111D4", "U+112F4", "U+11454", "U+114D4", "U+11654", "U+116C4",
      "U+11734", "U+118E4", "U+11954", "U+11C54", "U+11D54", "U+11DA4",
      "U+16A64", "U+16AC4", "U+16B54", "U+1D7D2", "U+1D7DC", "U+1D7E6",
      "U+1D7F0", "U+1D7FA", "U+1E144", "U+1E2F4", "U+1E954", "U+1FBF4" },
    { "U+0665", "U+06F5", "U+07C5", "U+096B", "U+09EB", "U+0A6B", "U+0AEB",
      "U+0B6B", "U+0BEB", "U+0C6B", "U+0CEB", "U+0D6B", "U+0DEB", "U+0E55",
      "U+0ED5", "U+0F25", "U+1045", "U+1095", "U+17E5", "U+1815", "U+194B",
      "U+19D5", "U+1A85", "U+1A95", "U+1B55", "U+1BB5", "U+1C45", "U+1C55",
      "U+A625", "U+A8D5", "U+A905", "U+A9D5", "U+A9F5", "U+AA55", "U+ABF5",
      "U+FF15", "U+104A5", "U+10D35", "U+1106B", "U+110F5", "U+1113B",
      "U+111D5", "U+112F5", "U+11455", "U+114D5", "U+11655", "U+116C5",
      "U+11735", "U+118E5", "U+11955", "U+11C55", "U+11D55", "U+11DA5",
      "U+16A65", "U+16AC5", "U+16B55", "U+1D7D3", "U+1D7DD", "U+1D7E7",
      "U+1D7F1", "U+1D7FB", "U+1E145", "U+1E2F5", "U+1E955", "U+1FBF5" },
    { "U+0666", "U+06F6", "U+07C6", "U+096C", "U+09EC", "U+0A6C", "U+0AEC",
      "U+0B6C", "U+0BEC", "U+0C6C", "U+0CEC", "U+0D6C", "U+0DEC", "U+0E56",
      "U+0ED6", "U+0F26", "U+1046", "U+1096", "U+17E6", "U+1816", "U+194C",
      "U+19D6", "U+1A86", "U+1A96", "U+1B56", "U+1BB6", "U+1C46", "U+1C56",
      "U+A626", "U+A8D6", "U+A906", "U+A9D6", "U+A9F6", "U+AA56", "U+ABF6",
      "U+FF16", "U+104A6", "U+10D36", "U+1106C", "U+110F6", "U+1113C",
      "U+111D6", "U+112F6", "U+11456", "U+114D6", "U+11656", "U+116C6",
      "U+11736", "U+118E6", "U+11956", "U+11C56", "U+11D56", "U+11DA6",
      "U+16A66", "U+16AC6", "U+16B56", "U+1D7D4", "U+1D7DE", "U+1D7E8",
      "U+1D7F2", "U+1D7FC", "U+1E146", "U+1E2F6", "U+1E956", "U+1FBF6" },
    { "U+0667", "U+06F7", "U+07C7", "U+096D", "U+09ED", "U+0A6D", "U+0AED",
      "U+0B6D", "U+0BED", "U+0C6D", "U+0CED", "U+0D6D", "U+0DED", "U+0E57",
      "U+0ED7", "U+0F27", "U+1047", "U+1097", "U+17E7", "U+1817", "U+194D",
      "U+19D7", "U+1A87", "U+1A97", "U+1B57", "U+1BB7", "U+1C47", "U+1C57",
      "U+A627", "U+A8D7", "U+A907", "U+A9D7", "U+A9F7", "U+AA57", "U+ABF7",
      "U+FF17", "U+104A7", "U+10D37", "U+1106D", "U+110F7", "U+1113D",
      "U+111D7", "U+112F7", "U+11457", "U+114D7", "U+11657", "U+116C7",
      "U+11737", "U+118E7", "U+11957", "U+11C57", "U+11D57", "U+11DA7",
      "U+16A67", "U+16AC7", "U+16B57", "U+1D7D5", "U+1D7DF", "U+1D7E9",
      "U+1D7F3", "U+1D7FD", "U+1E147", "U+1E2F7", "U+1E957", "U+1FBF7" },
    { "U+0668", "U+06F8", "U+07C8", "U+096E", "U+09EE", "U+0A6E", "U+0AEE",
      "U+0B6E", "U+0BEE", "U+0C6E", "U+0CEE", "U+0D6E", "U+0DEE", "U+0E58",
      "U+0ED8", "U+0F28", "U+1048", "U+1098", "U+17E8", "U+1818", "U+194E",
      "U+19D8", "U+1A88", "U+1A98", "U+1B58", "U+1BB8", "U+1C48", "U+1C58",
      "U+A628", "U+A8D8", "U+A908", "U+A9D8", "U+A9F8", "U+AA58", "U+ABF8",
      "U+FF18", "U+104A8", "U+10D38", "U+1106E", "U+110F8", "U+1113E",
      "U+111D8", "U+112F8", "U+11458", "U+114D8", "U+11658", "U+116C8",
      "U+11738", "U+118E8", "U+11958", "U+11C58", "U+11D58", "U+11DA8",
      "U+16A68", "U+16AC8", "U+16B58", "U+1D7D6", "U+1D7E0", "U+1D7EA",
      "U+1D7F4", "U+1D7FE", "U+1E148", "U+1E2F8", "U+1E958", "U+1FBF8" },
    { "U+0669", "U+06F9", "U+07C9", "U+096F", "U+09EF", "U+0A6F", "U+0AEF",
      "U+0B6F", "U+0BEF", "U+0C6F", "U+0CEF", "U+0D6F", "U+0DEF", "U+0E59",
      "U+0ED9", "U+0F29", "U+1049", "U+1099", "U+17E9", "U+1819", "U+194F",
      "U+19D9", "U+1A89", "U+1A99", "U+1B59", "U+1BB9", "U+1C49", "U+1C59",
      "U+A629", "U+A8D9", "U+A909", "U+A9D9", "U+A9F9", "U+AA59", "U+ABF9",
      "U+FF19", "U+104A9", "U+10D39", "U+1106F", "U+110F9", "U+1113F",
      "U+111D9", "U+112F9", "U+11459", "U+114D9", "U+11659", "U+116C9",
      "U+11739", "U+118E9", "U+11959", "U+11C59", "U+11D59", "U+11DA9",
      "U+16A69", "U+16AC9", "U+16B59", "U+1D7D7", "U+1D7E1", "U+1D7EB",
      "U+1D7F5", "U+1D7FF", "U+1E149", "U+1E2F9", "U+1E959", "U+1FBF9" }
  >>

IsDecimal(c) == c \in Digits \/ \E d \in 0..9 : c \in DecimalDigits[d + 1]
DigitVal(c) == CHOOSE d \in 0..9 : c = DigitText(d) \/ c \in DecimalDigits[d + 1]

RECURSIVE Pow10(_)
Pow10(n) == IF n <= 0 THEN 1 ELSE 10 * Pow10(n - 1)

\* Value of a run of decimal digits ("" reads as 0).
RECURSIVE DigitsValue(_)
DigitsValue(s) ==
  IF Len(s) = 0 THEN 0
  ELSE 10 * DigitsValue(SubSeq(s, 1, Len(s) - 1)) + DigitVal(s[Len(s)])

AllDigits(s) == \A i \in 1..Len(s) : s[i] \in Digits

\* The characters the float reader of pd.to_numeric skips at both ends:
\* space, tab, line feed, vertical tab, form feed, carriage return.
AsciiSpace == {" ", "\t", "\n", "U+000B", "\f", "\r"}

\* The characters int() drops at both ends: those, and the spaces of Unicode
\* beyond ASCII.
UnicodeSpace ==
  AsciiSpace \cup
  { "U+0085", "U+00A0", "U+1680", "U+2000", "U+2001", "U+2002", "U+2003",
    "U+2004", "U+2005", "U+2006", "U+2007", "U+2008", "U+2009", "U+200A",
    "U+2028", "U+2029", "U+202F", "U+205F", "U+3000" }

RECURSIVE LStrip(_, _)
LStrip(s, space) == IF Len(s) > 0 /\ s[1] \in space THEN LStrip(Tail(s), space) ELSE s
RECURSIVE RStrip(_, _)
RStrip(s, space) ==
  IF Len(s) > 0 /\ s[Len(s)] \in space THEN RStrip(SubSeq(s, 1, Len(s) - 1), space) ELSE s
Strip(s, space) == RStrip(LStrip(s, space), space)

\* One leading sign, "+" or "-".
Unsigned(s) == IF Len(s) > 0 /\ s[1] \in {"+", "-"} THEN Tail(s) ELSE s
Signed(s, v) == IF Len(s) > 0 /\ s[1] = "-" THEN 0 - v ELSE v

\* Digits with single underscores between them, as int() groups them.
Grouped(r) ==
  /\ Len(r) > 0
  /\ IsDecimal(r[1]) /\ IsDecimal(r[Len(r)])
  /\ \A i \in 1..Len(r) : IsDecimal(r[i]) \/ r[i] = "_"
  /\ \A i \in 1..(Len(r) - 1) : ~ (r[i] = "_" /\ r[i + 1] = "_")
OnlyDigits(r) == SelectSeq(r, IsDecimal)

\* Python converts a str of more than 4300 digits to no int: int() and the
\* JSON reader raise ValueError (sys.get_int_max_str_digits(), CPython 3.11
\* and later).  Signs, underscores and whitespace do not count, leading
\* zeros do.
IntMaxStrDigits == 4300

\* int(str): whitespace at both ends is dropped, then an optional sign and
\* decimal digits of any script, single underscores allowed between digits;
\* leading zeros are accepted ("02020" is 2020).  Anything else, and more
\* than IntMaxStrDigits digits, raises ValueError.
IntConvertible(s) ==
  /\ Grouped(Unsigned(Strip(s, UnicodeSpace)))
  /\ Len(OnlyDigits(Unsigned(Strip(s, UnicodeSpace)))) <= IntMaxStrDigits

\* Digits without their leading zeros.
Significant(d) ==
  IF \A i \in 1..Len(d) : d[i] = "0" THEN << >>
  ELSE SubSeq(d, CHOOSE i \in 1..Len(d) : d[i] # "0" /\ \A j \in 1..(i - 1) : d[j] = "0",
              Len(d))

\* Digits a against digits b as decimal fractions 0.a and 0.b: a >= b.
RECURSIVE GeDigits(_, _)
GeDigits(a, b) ==
  IF Len(b) = 0 THEN TRUE
  ELSE IF Len(a) = 0 THEN \A i \in 1..Len(b) : b[i] = "0"
  ELSE IF a[1] # b[1] THEN DigitVal(a[1]) > DigitVal(b[1])
  ELSE GeDigits(Tail(a), Tail(b))

\* The index holds 64-bit integers: an int outside -2^63 .. 2^63 - 1 raises
\* OverflowError.  Int64Limit is 2^63.
Int64Limit ==
  << "9", "2", "2", "3", "3", "7", "2", "0", "3", "6", "8", "5", "4", "7",
     "7", "5", "8", "0", "8" >>
Magnitude(s) ==
  Significant([i \in 1..Len(OnlyDigits(Unsigned(Strip(s, UnicodeSpace)))) |->
                 DigitText(DigitVal(OnlyDigits(Unsigned(Strip(s, UnicodeSpace)))[i]))])
IntOf(s) == Signed(Strip(s, UnicodeSpace), DigitsValue(Magnitude(s)))
Int64Overflow(s) ==
  LET negative == Len(Strip(s, UnicodeSpace)) > 0 /\ Strip(s, UnicodeSpace)[1] = "-"
  IN \/ Len(Magnitude(s)) > Len(Int64Limit)
     \/ /\ Len(Magnitude(s)) = Len(Int64Limit)
        /\ GeDigits(Magnitude(s), Int64Limit)
        /\ ~ (negative /\ Magnitude(s) = Int64Limit)

NaN == [nan |-> TRUE, inf |-> 0, v |-> 0, huge |-> 0]
Num(v) == [nan |-> FALSE, inf |-> 0, v |-> v, huge |-> 0]
Inf(sign) == [nan |-> FALSE, inf |-> sign, v |-> 0, huge |-> 0]
Zeros(n) == [i \in 1..n |-> "0"]

\* A decimal rounds to an infinite double from 2^1024 - 2^970 on, the middle
\* between the largest double and 2^1024: DoubleLimit holds its digits.
DoubleLimit ==
  << "1", "7", "9", "7", "6", "9", "3", "1", "3", "4", "8", "6", "2", "3",
     "1", "5", "8", "0", "7", "9", "3", "7", "2", "8", "9", "7", "1", "4",
     "0", "5", "3", "0", "3", "4", "1", "5", "0", "7", "9", "9", "3", "4",
     "1", "3", "2", "7", "1", "0", "0", "3", "7", "8", "2", "6", "9", "3",
     "6", "1", "7", "3", "7", "7", "8", "9", "8", "0", "4", "4", "4", "9",
     "6", "8", "2", "9", "2", "7", "6", "4", "7", "5", "0", "9", "4", "6",
     "6", "4", "9", "0", "1", "7", "9", "7", "7", "5", "8", "7", "2", "0",
     "7", "0", "9", "6", "3", "3", "0", "2", "8", "6", "4", "1", "6", "6",
     "9", "2", "8", "8", "7", "9", "1", "0", "9", "4", "6", "5", "5", "5",
     "5", "4", "7", "8", "5", "1", "9", "4", "0", "4", "0", "2", "6", "3",
     "0", "6", "5", "7", "4", "8", "8", "6", "7", "1", "5", "0", "5", "8",
     "2", "0", "6", "8", "1", "9", "0", "8", "9", "0", "2", "0", "0", "0",
     "7", "0", "8", "3", "8", "3", "6", "7", "6", "2", "7", "3", "8", "5",
     "4", "8", "4", "5", "8", "1", "7", "7", "1", "1", "5", "3", "1", "7",
     "6", "4", "4", "7", "5", "7", "3", "0", "2", "7", "0", "0", "6", "9",
     "8", "5", "5", "5", "7", "1", "3", "6", "6", "9", "5", "9", "6", "2",
     "2", "8", "4", "2", "9", "1", "4", "8", "1", "9", "8", "6", "0", "8",
     "3", "4", "9", "3", "6", "4", "7", "5", "2", "9", "2", "7", "1", "9",
     "0", "7", "4", "1", "6", "8", "4", "4", "4", "3", "6", "5", "5", "1",
     "0", "7", "0", "4", "3", "4", "2", "7", "1", "1", "5", "5", "9", "6",
     "9", "9", "5", "0", "8", "0", "9", "3", "0", "4", "2", "8", "8", "0",
     "1", "7", "7", "9", "0", "4", "1", "7", "4", "4", "9", "7", "7", "9",
     "2" >>

\* The number of the digits d with the decimal point after the first pos of
\* them, within the range of a double: the digits before the point and the
\* first FracDigits digits after it, padded with zeros.
Scaled(d, pos) ==
  LET int  == IF pos <= 0 THEN << >>
              ELSE IF pos >= Len(d) THEN d \o Zeros(pos - Len(d))
              ELSE SubSeq(d, 1, pos)
      frac == IF pos >= Len(d) THEN << >>
              ELSE IF pos <= 0 THEN Zeros(0 - pos) \o d
              ELSE SubSeq(d, pos + 1, Len(d))
      part == [i \in 1..FracDigits |-> IF i <= Len(frac) THEN frac[i] ELSE "0"]
  IN IF Len(Significant(d)) = 0 THEN Num(0)
     ELSE IF pos < 0 - FracDigits THEN Num(0)
     ELSE Num(DigitsValue(int) * Pow10(FracDigits) + DigitsValue(part))
Negated(s, x) ==
  IF Len(s) > 0 /\ s[1] = "-"
  THEN [nan |-> x.nan, inf |-> 0 - x.inf, v |-> 0 - x.v, huge |-> 0 - x.huge]
  ELSE x

\* Decimal text without sign: mantissa, and exponent after "e" or "E".
DecimalPoints(b) == {i \in 1..Len(b) : b[i] = "."}
PointAt(b) == IF DecimalPoints(b) = {} THEN Len(b) + 1 ELSE CHOOSE i \in DecimalPoints(b) : TRUE
ExpMarks(b) == {i \in 1..Len(b) : b[i] \in {"e", "E"}}
ExpAt(b) ==
  IF ExpMarks(b) = {} THEN Len(b) + 1
  ELSE CHOOSE i \in ExpMarks(b) : \A j \in ExpMarks(b) : i <= j
Mantissa(b) == SubSeq(b, 1, ExpAt(b) - 1)
Exponent(b) == SubSeq(b, ExpAt(b) + 1, Len(b))
IntText(m) == SubSeq(m, 1, PointAt(m) - 1)
FracText(m) == SubSeq(m, PointAt(m) + 1, Len(m))
ExponentOk(b) ==
  ExpAt(b) > Len(b) \/ (Len(Unsigned(Exponent(b))) > 0 /\ AllDigits(Unsigned(Exponent(b))))
ExponentOf(b) ==
  IF ExpAt(b) > Len(b) THEN 0
  ELSE Signed(Exponent(b), DigitsValue(Unsigned(Exponent(b))))
DecimalValue(b) ==
  Scaled(IntText(Mantissa(b)) \o FracText(Mantissa(b)),
         Len(IntText(Mantissa(b))) + ExponentOf(b))
DecimalOverflows(b) ==
  LET d   == IntText(Mantissa(b)) \o FracText(Mantissa(b))
      pos == Len(IntText(Mantissa(b))) + ExponentOf(b)
  IN /\ Len(Significant(d)) > 0
     /\ \/ Len(Significant(d)) - (Len(d) - pos) > Len(DoubleLimit)
        \/ /\ Len(Significant(d)) - (Len(d) - pos) = Len(DoubleLimit)
           /\ GeDigits(Significant(d), DoubleLimit)

\* The float reader of pd.to_numeric: digits with at most one point and at
\* least one digit ("5.", ".5"), an optional exponent with digits.
FloatShape(b) ==
  /\ AllDigits(IntText(Mantissa(b))) /\ AllDigits(FracText(Mantissa(b)))
  /\ Len(IntText(Mantissa(b))) + Len(FracText(Mantissa(b))) > 0
  /\ ExponentOk(b)

\* The letters of "nan", "inf" and "infinity" in lower case.
LowerText(s) ==
  [i \in 1..Len(s) |->
     CASE s[i] = "A" -> "a" [] s[i] = "F" -> "f" [] s[i] = "I" -> "i"
       [] s[i] = "N" -> "n" [] s[i] = "T" -> "t" [] s[i] = "Y" -> "y" [] OTHER -> s[i]]

\* The float reader of pd.to_numeric reports a float beyond the range of a
\* double as an error.
InRange(b) == IF DecimalOverflows(b) THEN NaN ELSE DecimalValue(b)

\* A str read by pd.to_numeric: whitespace at both ends is skipped around a
\* signed float; "nan", "inf" and "infinity", signed or not and in any case,
\* are read without it.  Text of no such shape is NaN under errors="coerce".
ParseDecimal(s) ==
  IF LowerText(Unsigned(s)) \in { <<"i", "n", "f">>, <<"i", "n", "f", "i", "n", "i", "t", "y">> }
  THEN Negated(s, Inf(1))
  ELSE IF FloatShape(Unsigned(Strip(s, AsciiSpace)))
  THEN Negated(Strip(s, AsciiSpace), InRange(Unsigned(Strip(s, AsciiSpace))))
  ELSE NaN

\* A JSON value: null, a number token, a string, an object (its members in
\* the order of the text) or a list (its elements).
JNull == [t |-> "null", s |-> << >>, items |-> << >>]
JNum(s) == [t |-> "num", s |-> s, items |-> << >>]
JStr(s) == [t |-> "str", s |-> s, items |-> << >>]
JObj(items) == [t |-> "obj", s |-> << >>, items |-> items]
JList(items) == [t |-> "list", s |-> << >>, items |-> items]
Entry(k, v) == [k |-> k, v |-> v]

\* The number tokens json.loads accepts: -?int frac? exp? with no leading
\* zero in int and digits after the point, and NaN, Infinity, -Infinity.  A
\* token with a fraction or an exponent is a float, infinite beyond the
\* range of a double; a token of digits alone is an int, of any size up to
\* IntMaxStrDigits digits: on a longer one json.loads raises ValueError.
JsonSpecial(s) ==
  s \in { <<"N", "a", "N">>, <<"I", "n", "f", "i", "n", "i", "t", "y">>,
          <<"-", "I", "n", "f", "i", "n", "i", "t", "y">> }
JsonUnsigned(s) == IF Len(s) > 0 /\ s[1] = "-" THEN Tail(s) ELSE s
JsonFloat(s) ==
  \/ JsonSpecial(s)
  \/ PointAt(JsonUnsigned(s)) <= Len(JsonUnsigned(s))
  \/ ExpAt(JsonUnsigned(s)) <= Len(JsonUnsigned(s))
JsonNumberOk(s) ==
  LET m  == Mantissa(JsonUnsigned(s))
      ip == IntText(m)
  IN \/ JsonSpecial(s)
     \/ /\ Len(ip) > 0 /\ AllDigits(ip) /\ (ip[1] = "0" => Len(ip) = 1)
        /\ PointAt(m) > Len(m) \/ (Len(FracText(m)) > 0 /\ AllDigits(FracText(m)))
        /\ ExponentOk(JsonUnsigned(s))
        /\ JsonFloat(s) \/ Len(ip) <= IntMaxStrDigits
JsonNumber(s) ==
  IF s = <<"N", "a", "N">> THEN NaN
  ELSE IF JsonSpecial(s) THEN Negated(s, Inf(1))
  ELSE IF ~ DecimalOverflows(JsonUnsigned(s)) THEN Negated(s, DecimalValue(JsonUnsigned(s)))
  ELSE IF JsonFloat(s) THEN Negated(s, Inf(1))
  ELSE Negated(s, [nan |-> FALSE, inf |-> 0, v |-> 0, huge |-> 1])

\* The body is JSON text: every number token in it is one.
RECURSIVE Decodes(_)
Decodes(j) ==
  /\ j.t = "num" => JsonNumberOk(j.s)
  /\ j.t = "obj" => \A i \in 1..Len(j.items) : Decodes(j.items[i].v)
  /\ j.t = "list" => \A i \in 1..Len(j.items) : Decodes(j.items[i])

\* No number token of the text is an int of more than IntMaxStrDigits
\* digits, which json.loads refuses with ValueError, not JSONDecodeError.
RECURSIVE IntsFit(_)
IntsFit(j) ==
  /\ j.t = "num" => ~ (AllDigits(JsonUnsigned(j.s)) /\ Len(JsonUnsigned(j.s)) > IntMaxStrDigits)
  /\ j.t = "obj" => \A i \in 1..Len(j.items) : IntsFit(j.items[i].v)
  /\ j.t = "list" => \A i \in 1..Len(j.items) : IntsFit(j.items[i])

\* response.json() turns a number token into an int or a float, a string
\* into a str, null into None, an object into a dict and a list into a list
\* (line 62).
JsonLoad(j) ==
  CASE j.t = "num"  -> [py |-> IF JsonFloat(j.s) THEN "float" ELSE "int",
                        n |-> JsonNumber(j.s), s |-> << >>]
    [] j.t = "str"  -> [py |-> "str", n |-> NaN, s |-> j.s]
    [] j.t = "obj"  -> [py |-> "dict", n |-> NaN, s |-> << >>]
    [] j.t = "list" -> [py |-> "list", n |-> NaN, s |-> << >>]
    [] OTHER        -> [py |-> "None", n |-> NaN, s |-> << >>]
PyStr(s) == [py |-> "str", n |-> NaN, s |-> s]

\* pd.to_numeric(..., errors="coerce") on one cell (line 68): a number stays,
\* a string is parsed; None, a dict, a list and unparseable text become NaN.
\* An int beyond the range of a double raises OverflowError.
ToNumeric(x) ==
  CASE x.py \in {"int", "float"} -> x.n
    [] x.py = "str"              -> ParseDecimal(x.s)
    [] OTHER                     -> NaN

\* The characters of the names the script uses as keys.
Chars(name) ==
  CASE name = "values" -> <<"v", "a", "l", "u", "e", "s">>
    [] name = "message" -> <<"m", "e", "s", "s", "a", "g", "e">>
    [] name = "Valor" -> <<"V", "a", "l", "o", "r">>
    [] name = "NGDP_R" -> <<"N", "G", "D", "P", "_", "R">>
    [] name = "NGDPDPC" -> <<"N", "G", "D", "P", "D", "P", "C">>
    [] name = "PCPI" -> <<"P", "C", "P", "I">>
    [] name = "TXG_FOB_USD" -> <<"T", "X", "G", "_", "F", "O", "B", "_", "U", "S", "D">>
    [] name = "TMG_CIF_USD" -> <<"T", "M", "G", "_", "C", "I", "F", "_", "U", "S", "D">>
    [] name = "BCA" -> <<"B", "C", "A">>
    [] name = "RAXG" -> <<"R", "A", "X", "G">>
    [] name = "FPOLM_PA" -> <<"F", "P", "O", "L", "M", "_", "P", "A">>
    [] name = "GGXWDG" -> <<"G", "G", "X", "W", "D", "G">>
    [] name = "GGXONLB" -> <<"G", "G", "X", "O", "N", "L", "B">>
    [] name = "GGX" -> <<"G", "G", "X">>
    [] name = "LUR" -> <<"L", "U", "R">>
    [] name = "FDI" -> <<"F", "D", "I">>
    [] name = "MX" -> <<"M", "X">>
    [] name = "US" -> <<"U", "S">>

-----------------------------------------------------------------------------
(* Catalog (lines 19-49) *)

\* PAISES, restricted to the two countries of the model.
PAISES ==
  [p \in {"MEX", "USA"} |->
     IF p = "MEX" THEN [nombre |-> "México", iso2 |-> "MX"]
     ELSE [nombre |-> "Estados Unidos", iso2 |-> "US"]]

-----------------------------------------------------------------------------
(* obtener_datos_fmi (lines 55-75) *)

TTL == 3600        \* seconds (line 55)
SleepMs == 500     \* time.sleep(0.5), in milliseconds (line 70)
Ms(seconds) == 1000 * seconds

\* A row of the DataFrame.
Row(anio, valor) == [Anio |-> anio, Valor |-> valor]

\* response.raise_for_status() raises HTTPError for a 4xx or 5xx status (line 60).
RaiseForStatus(status) == status >= 400 /\ status < 600

Returned(df) == [exc |-> "none", df |-> df]
Raised(e)    == [exc |-> e, df |-> << >>]

\* node[key] with a str key: the member of an object (the last one of that
\* name), KeyError without one; TypeError on None, a list, a str or a number.
Members(node, key) == {i \in 1..Len(node.items) : node.items[i].k = key}
Subscript(node, key) ==
  IF node.t # "obj" THEN [exc |-> "TypeError", v |-> JNull]
  ELSE IF Members(node, key) = {} THEN [exc |-> "KeyError", v |-> JNull]
  ELSE [exc |-> "none",
        v |-> node.items[CHOOSE i \in Members(node, key) :
                           \A j \in Members(node, key) : j <= i].v]

\* The dict of a JSON object: one item per name, at the place of the first
\* member of that name and with the value of the last one.
RECURSIVE DictFrom(_, _)
DictFrom(node, i) ==
  IF i > Len(node.items) THEN << >>
  ELSE (IF \E j \in 1..(i - 1) : node.items[j].k = node.items[i].k THEN << >>
        ELSE << Entry(node.items[i].k, Subscript(node, node.items[i].k).v) >>)
       \o DictFrom(node, i + 1)
DictOf(node) == DictFrom(node, 1)

\* A cell of the frame of line 65, under its index label.
Cell(k, x) == [index |-> k, Valor |-> x]

\* from_dict on a dict whose first value is a dict: the frame is built
\* column by column from the inner dicts, so every value must be a dict
\* (AttributeError otherwise), and column "Valor" holds the members of that
\* name: a row for every key that has one.
HasValor(e) == Members(e.v, Chars("Valor")) # {}
FromNestedDict(d) ==
  IF \E i \in 1..Len(d) : d[i].v.t # "obj" THEN Raised("AttributeError")
  ELSE Returned([i \in 1..Len(SelectSeq(d, HasValor)) |->
                   Cell(SelectSeq(d, HasValor)[i].k,
                        JsonLoad(Subscript(SelectSeq(d, HasValor)[i].v, Chars("Valor")).v))])

\* from_dict on a dict whose first value is a list: every value is a row of
\* cells.  A value without a length raises TypeError; the rows must be one
\* cell wide, as there is one column (ValueError otherwise); a dict is the
\* row of its keys, a str the row of its characters, and an empty row holds
\* None.
RowLen(v) ==
  CASE v.t = "list" -> Len(v.items)
    [] v.t = "obj"  -> Len(DictOf(v))
    [] OTHER        -> Len(v.s)
FirstOf(v) ==
  IF RowLen(v) = 0 THEN JsonLoad(JNull)
  ELSE CASE v.t = "list" -> JsonLoad(v.items[1])
         [] v.t = "obj"  -> PyStr(DictOf(v)[1].k)
         [] OTHER        -> PyStr(<< v.s[1] >>)
FromRows(d) ==
  IF \E i \in 1..Len(d) : d[i].v.t \notin {"list", "obj", "str"} THEN Raised("TypeError")
  ELSE IF ~ (/\ \A i \in 1..Len(d) : RowLen(d[i].v) <= 1
             /\ \E i \in 1..Len(d) : RowLen(d[i].v) = 1) THEN Raised("ValueError")
  ELSE Returned([i \in 1..Len(d) |-> Cell(d[i].k, FirstOf(d[i].v))])

\* pd.DataFrame.from_dict(series, orient="index", columns=["Valor"]) on a
\* dict (line 65): one row per key, in the order of the keys, when its first
\* value is neither a dict nor a list.
FromDict(d) ==
  IF Len(d) = 0 THEN Returned(<< >>)
  ELSE CASE d[1].v.t = "obj"  -> FromNestedDict(d)
         [] d[1].v.t = "list" -> FromRows(d)
         [] OTHER             -> Returned([i \in 1..Len(d) |-> Cell(d[i].k, JsonLoad(d[i].v))])

\* df.index.astype(int) (line 66) converts the keys one after the other: the
\* first key that is no integer raises ValueError, the first one that does
\* not fit 64 bits OverflowError.
KeyOk(k) == IntConvertible(k) /\ ~ Int64Overflow(k)
IndexConvertible(df) == \A i \in 1..Len(df) : KeyOk(df[i].index)
FirstBadKey(df) ==
  df[CHOOSE i \in 1..Len(df) :
       ~ KeyOk(df[i].index) /\ \A j \in 1..(i - 1) : KeyOk(df[j].index)].index

\* Lines 66-68: the index as integers, moved to column "Año"; "Valor" numeric.
Normalize(df) == [i \in 1..Len(df) |-> Row(IntOf(df[i].index), ToNumeric(df[i].Valor))]

\* df.dropna() (line 71): the rows without a NaN, in order.
RECURSIVE DropNa(_)
DropNaKeepsAll(df) == df
DropNa(df) ==
  IF Len(df) = 0 THEN << >>
  ELSE IF df[1].Valor.nan THEN DropNa(Tail(df))
  ELSE << df[1] >> \o DropNa(Tail(df))

\* Lines 66-71 on the frame of line 65.
Frame(df) ==
  IF ~ IndexConvertible(df)
  THEN Raised(IF IntConvertible(FirstBadKey(df)) THEN "OverflowError" ELSE "ValueError")
  ELSE IF \E i \in 1..Len(df) : (df[i].Valor.py = "int" /\ df[i].Valor.n.huge # 0) THEN Raised("OverflowError")
  ELSE Returned(DropNa(Normalize(df)))
Framed(r) == IF r.exc # "none" THEN r ELSE Frame(r.df)

\* Lines 65-71 on the series of line 63.  from_dict takes len(series) and
\* then the values of a non-empty one: None and a number have no len
\* (TypeError), a non-empty list or str has no values (AttributeError), an
\* empty list gives an empty frame and an empty str is no frame (ValueError).
Reshape(series) ==
  CASE series.t = "obj" -> Framed(FromDict(DictOf(series)))
    [] series.t = "list" -> IF Len(series.items) = 0 THEN Frame(<< >>) ELSE Raised("AttributeError")
    [] series.t = "str" -> IF Len(series.s) = 0 THEN Raised("ValueError") ELSE Raised("AttributeError")
    [] OTHER -> Raised("TypeError")

\* Line 63, data["values"][indicador_codigo][pais_iso2], then lines 65-71.
SeriesOfCountry(r) == IF r.exc # "none" THEN Raised(r.exc) ELSE Reshape(r.v)
SeriesOfIndicator(r, pais_iso2) ==
  IF r.exc # "none" THEN Raised(r.exc)
  ELSE SeriesOfCountry(Subscript(r.v, Chars(pais_iso2)))
SeriesOfValues(r, pais_iso2, indicador_codigo) ==
  IF r.exc # "none" THEN Raised(r.exc)
  ELSE SeriesOfIndicator(Subscript(r.v, Chars(indicador_codigo)), pais_iso2)

\* The try block (lines 58-71): the DataFrame returned, or the exception raised.
TryBlock(resp, pais_iso2, indicador_codigo) ==
  IF resp.transport # "ok" THEN Raised("ConnectionError")
  ELSE IF RaiseForStatus(resp.status) THEN Raised("HTTPError")
  ELSE IF resp.json /\ ~ IntsFit(resp.data) THEN Raised("ValueError")
  ELSE IF ~ (resp.json /\ Decodes(resp.data)) THEN Raised("JSONDecodeError")
  ELSE SeriesOfValues(Subscript(resp.data, Chars("values")), pais_iso2, indicador_codigo)

\* "except Exception" (line 73) catches every exception class but the ones
\* that derive from BaseException alone.
CaughtOnlyRequests(e) == e \in {"ConnectionError", "HTTPError"}
Caught(e) == e \notin {"KeyboardInterrupt", "SystemExit", "GeneratorExit"}

\* The whole function body: the value returned, the st.error notices shown,
\* the exception that leaves the function ("none" when none does), and
\* whether line 70 was reached and slept.
Except(t) ==
  IF t.exc = "none" THEN [df |-> t.df, notices |-> 0, exc |-> "none", slept |-> TRUE]
  ELSE IF Caught(t.exc) THEN [df |-> << >>, notices |-> 1, exc |-> "none", slept |-> FALSE]
  ELSE [df |-> << >>, notices |-> 0, exc |-> t.exc, slept |-> FALSE]
Body(resp, pais_iso2, indicador_codigo) == Except(TryBlock(resp, pais_iso2, indicador_codigo))

\* The time the body takes: the wait for the response, and the sleep.
Elapsed(r, lag) == lag + (IF r.slept THEN SleepMs ELSE 0)

\* @st.cache_data(ttl=3600) (line 55): the entry is keyed by the arguments.
CacheKeyNoEnd(pais_iso2, indicador_codigo, start_year, end_year) ==
  << pais_iso2, indicador_codigo, start_year, start_year >>
CacheKey(pais_iso2, indicador_codigo, start_year, end_year) ==
  << pais_iso2, indicador_codigo, start_year, end_year >>
KeyOf(args) == CacheKey(args[1], args[2], args[3], args[4])

\* An entry is served while the clock is before its expiry, the time it was
\* written plus the ttl.  At the instant of expiry cachetools 5 has dropped
\* the entry and cachetools 4 still serves it; the repository pins neither.
FreshForever(entry, t, inclusive) == TRUE
Fresh(entry, t, inclusive) ==
  \/ t < entry.stored + Ms(TTL)
  \/ inclusive /\ t = entry.stored + Ms(TTL)
Served(c, key, t) == key \in DOMAIN c /\ Fresh(c[key], t, expiry = "inclusive")

\* What is written when the body has returned, at time t: its value and the
\* notices it showed.
StoreOnlyData(c, key, r, t) ==
  IF r.df = << >> THEN c
  ELSE (key :> [value |-> r.df, msgs |-> r.notices, stored |-> t]) @@ c
Store(c, key, r, t) ==
  (key :> [value |-> r.df, msgs |-> r.notices, stored |-> t]) @@ c

\* The log record of a call begun at time at: the requests it sent, whether
\* it was served from the cache, the time it wrote an entry (-1: it wrote
\* none) and the value written, the notices it showed, and how it ended:
\* "no" while it runs, "returned" with the value ret, "rerun" when Streamlit
\* ended the script run inside it, "raised" when the exception exc left the
\* body.
Begun(args, at) ==
  [args |-> args, at |-> at, reqs |-> 0, served |-> FALSE, wrote |-> -1, value |-> << >>,
   notices |-> 0, ended |-> "no", done |-> -1, ret |-> << >>, exc |-> "none"]

\* Where a session is in call n of the log: outside a call; waiting for
\* another session that computes the same key (the cache lets one session
\* at a time compute a key); in the body, the request sent at time sent,
\* result the outcome the body has with the response that is on its way and
\* wake the time the body ends; or leaving the call with the value df, replay
\* the stored notices a hit shows again, the spinner of the cache still to be
\* cleared.
Idle == [phase |-> "idle"]
InBody(args, at, sent, r, lag, n) ==
  [phase |-> "compute", args |-> args, at |-> at, sent |-> sent, n |-> n,
   result |-> r, wake |-> sent + Elapsed(r, lag)]
Computing(args, at, sent, resp, n) ==
  InBody(args, at, sent, Body(resp, args[1], args[2]), resp.lag, n)
Leaving(args, n, df, replay) ==
  [phase |-> "exit", args |-> args, n |-> n, df |-> df, replay |-> replay]
Locked(fl, s, key) ==
  \E o \in DOMAIN fl \ {s} : fl[o].phase = "compute" /\ KeyOf(fl[o].args) = key
-----------------------------------------------------------------------------
(* The IMF API (the peer of requests.get, line 59) *)

\* A response: lag is the time requests.get waited for it, in milliseconds.
Down == [transport |-> "down", status |-> 0, json |-> FALSE, data |-> JNull, lag |-> 0]
HttpStatus(status) ==
  [transport |-> "ok", status |-> status, json |-> TRUE,
   data |-> JObj(<< Entry(Chars("message"), JStr(<<"e", "r", "r", "o", "r">>)) >>), lag |-> 0]
NotJson == [transport |-> "ok", status |-> 200, json |-> FALSE, data |-> JNull, lag |-> 0]
OkData(data) == [transport |-> "ok", status |-> 200, json |-> TRUE, data |-> data, lag |-> 0]
Slow(resp, lag) == [resp EXCEPT !.lag = lag]
LagMs == SleepMs \div 2

NoData == JObj(<< Entry(Chars("message"), JStr(<<"n", "o", " ", "d", "a", "t", "a">>)) >>)

\* {"values": {indicator: {country: series}}}
Healthy(indicador_codigo, pais_iso2, series) ==
  OkData(JObj(<< Entry(Chars("values"),
                       JObj(<< Entry(Chars(indicador_codigo),
                                     JObj(<< Entry(Chars(pais_iso2), series) >>)) >>)) >>))

\* Year keys and values of the enumerated series: three years, the first one
\* once more behind a no-break space, with a sign, a leading zero, an
\* underscore and an Arabic-Indic digit, and a key with a letter.
\* Every JSON object of at most MaxPoints entries over them: its keys are
\* pairwise different strings, in any order.
SeriesItems ==
  LET YearKeys ==
        { <<"2", "0", "2", "0">>, <<"2", "0", "2", "1">>, <<"2", "0", "2", "2">>,
          <<"U+00A0", "+", "0", "2", "_", "0", "U+0662", "0">>, <<"2", "O", "2", "1">> }
      SampleValues ==
        { JNum(<<"1", ".", "5", "E", "2">>), JStr(<<"1", "0", "0">>),
          JStr(<<"1", "0", "5", ".", "5">>), JStr(<<"U+000B", "+", "5", "e", "1">>),
          JNull, JStr(<<"a", "b", "c">>) }
  IN UNION { { s \in [1..n -> { Entry(k, v) : k \in YearKeys, v \in SampleValues }] :
                 \A i, j \in 1..n : i # j => s[i].k # s[j].k } : n \in 0..MaxPoints }

\* Series outside that shape: a name twice, keys in fullwidth digits and
\* beyond 64 bits, values beyond the range of a double, and values that are
\* objects or lists.
Y2020 == <<"2", "0", "2", "0">>
Y2021 == <<"2", "0", "2", "1">>
OddSeries ==
  { << Entry(Y2020, JNum(<<"1">>)), Entry(Y2021, JNum(<<"3">>)), Entry(Y2020, JNum(<<"2">>)) >>,
    << Entry(<<"U+FF12", "U+FF10", "U+FF12", "U+FF10">>, JNum(<<"1">>)) >>,
    << Entry(<<"9", "2", "2", "3", "3", "7", "2", "0", "3", "6", "8", "5", "4", "7", "7", "5", "8", "0", "8">>,
             JNum(<<"1">>)),
       Entry(<<"2", "O", "2", "1">>, JNum(<<"1">>)) >>,
    << Entry(Y2020, JNum(<<"2", "e", "3", "0", "8">>)), Entry(Y2021, JStr(<<"2", "e", "3", "0", "8">>)) >>,
    << Entry(Y2020, JNum(<<"1">> \o Zeros(400))) >>,
    << Entry(Y2020, JNum(<<"1">> \o Zeros(IntMaxStrDigits))) >>,
    << Entry(Y2020, JNum(<<"1">> \o Zeros(IntMaxStrDigits) \o <<".", "5">>)) >>,
    << Entry(<<"2">> \o Zeros(IntMaxStrDigits), JNum(<<"1">>)) >>,
    << Entry(Zeros(IntMaxStrDigits - 4) \o Y2020, JNum(<<"1">>)) >>,
    << Entry(Y2020, JNum(<<"1">>)), Entry(Y2021, JObj(<< Entry(Chars("Valor"), JNum(<<"2">>)) >>)),
       Entry(<<"2", "0", "2", "2">>, JList(<< JNum(<<"3">>) >>)) >>,
    << Entry(Y2020, JObj(<< Entry(Chars("Valor"), JNum(<<"1">>)) >>)),
       Entry(Y2021, JObj(<< Entry(Chars("message"), JNum(<<"2">>)) >>)) >>,
    << Entry(Y2020, JObj(<< Entry(Chars("Valor"), JNum(<<"1">>)) >>)), Entry(Y2021, JNum(<<"2">>)) >>,
    << Entry(Y2020, JList(<< JNum(<<"1">>) >>)), Entry(Y2021, JStr(<<"7">>)),
       Entry(<<"2", "0", "2", "2">>, JList(<< >>)) >>,
    << Entry(Y2020, JList(<< JNum(<<"1">>), JNum(<<"2">>) >>)) >>,
    << Entry(Y2020, JList(<< JNum(<<"1">>) >>)), Entry(Y2021, JNull) >> }

\* Answers of the API to a request for NGDP_R of US.
FetchResponses ==
  { Down, Slow(Down, LagMs), HttpStatus(404), HttpStatus(503), NotJson,
    OkData(NoData), OkData(JList(<< JNum(<<"1">>), JNum(<<"2">>) >>)),
    OkData(JObj(<< Entry(Chars("values"), JNull) >>)),
    OkData(JObj(<< Entry(Chars("values"), JObj(<< Entry(Chars("NGDP_R"), JNull) >>)) >>)),
    Healthy("NGDP_R", "US", JNull),
    Healthy("NGDP_R", "US", JList(<< >>)),
    Healthy("NGDP_R", "US", JList(<< JNum(<<"1">>) >>)),
    Slow(Healthy("NGDP_R", "US", JObj(<< Entry(Y2020, JNum(<<"1", "e", "3">>)) >>)), LagMs) }
  \cup { Healthy("NGDP_R", "US", JObj(items)) : items \in SeriesItems \cup OddSeries }

\* Argument tuples of the direct calls.
FetchArgs ==
  { << "US", "NGDP_R", 2020, 2022 >>, << "US", "NGDP_R", 2021, 2022 >>,
    << "US", "NGDP_R", 2022, 2020 >>, << "MX", "NGDP_R", 2020, 2022 >>,
    << "US", "PCPI", 2020, 2022 >> }

\* str(year) as the API writes it: the decimal digits of a year.
RECURSIVE YearText(_)
YearText(y) == IF y < 10 THEN << DigitText(y) >> ELSE YearText(y \div 10) \o << DigitText(y % 10) >>

\* The value the API publishes for an indicator, a country and a year, at a
\* revision of its data: exports of 2020 are 50 and imports 70; the figures
\* of US come as strings with a decimal, those of MX as numbers.
Published(indicador_codigo, pais_iso2, y, revision) ==
  LET lead == CASE indicador_codigo = "TXG_FOB_USD" -> "5"
                [] indicador_codigo = "TMG_CIF_USD" -> "7"
                [] OTHER -> "1"
      text == << lead, DigitText((y + revision) % 10) >>
  IN IF pais_iso2 = "US" THEN JStr(text \o << ".", "5" >>) ELSE JNum(text)

\* The entries of the years first..last, in ascending order.
Points(indicador_codigo, pais_iso2, first, last, revision) ==
  [i \in 1..(IF last >= first THEN last - first + 1 ELSE 0) |->
     Entry(YearText(first + i - 1), Published(indicador_codigo, pais_iso2, first + i - 1, revision))]

\* How the API treats a request:
\*   ok      the years of the requested periods
\*   down    the connection fails
\*   status  HTTP 503
\*   schema  a JSON body without "values"
\*   empty   an empty series
\*   nulls   the requested years, every value null
\*   history the periods parameter is ignored: the series starts a year early
\*   padded  the requested years, the first one also under a zero-padded key

\* A catalog answers by country: u.fault[iso2] is the treatment of the
\* requests for that country, for the indicator u.scope ("ALL": for every
\* one); u.lag is the time it takes to answer.
Treated(how, pts, early) ==
  CASE how = "empty"   -> << >>
    [] how = "nulls"   -> [i \in 1..Len(pts) |-> Entry(pts[i].k, JNull)]
    [] how = "history" -> early \o pts
    [] how = "padded"  -> pts \o (IF Len(pts) = 0 THEN << >>
                                  ELSE << Entry(<< "0" >> \o pts[1].k, pts[1].v) >>)
    [] OTHER           -> pts
Treat(how, ind, iso, first, last, revision) ==
  CASE how = "down"   -> Down
    [] how = "status" -> HttpStatus(503)
    [] how = "schema" -> OkData(NoData)
    [] OTHER          -> Healthy(ind, iso,
                           JObj(Treated(how, Points(ind, iso, first, last, revision),
                                        Points(ind, iso, first - 1, first - 1, revision))))
CatalogResponse(u, args) ==
  Slow(Treat(IF u.scope \in {"ALL", args[2]} THEN u.fault[args[1]] ELSE "ok",
             args[2], args[1], args[3], args[4], u.revision),
       u.lag)

\* What the API answers to the request of a call.
Answer(u, args) == IF u.serve = "fixed" THEN u.resp ELSE CatalogResponse(u, args)

-----------------------------------------------------------------------------
(* The steps of a call of obtener_datos_fmi (lines 55-75) *)

NoOut == [kind |-> "none"]

\* Session s calls the function at the current time: the cache is read.  A
\* fresh entry is what the call will return.  Without one the session waits
\* while another session computes the same key, and otherwise enters the
\* body and sends the request (line 59).
Start(s, args) ==
  /\ flight[s].phase = "idle"
  /\ IF Served(cache, KeyOf(args), now)
     THEN /\ calls' = Append(calls, [Begun(args, now) EXCEPT !.served = TRUE])
          /\ flight' = [flight EXCEPT ![s] =
                          Leaving(args, Len(calls) + 1, cache[KeyOf(args)].value,
                                  cache[KeyOf(args)].msgs)]
     ELSE IF Locked(flight, s, KeyOf(args))
     THEN /\ calls' = Append(calls, Begun(args, now))
          /\ flight' = [flight EXCEPT ![s] =
                          [phase |-> "lock", args |-> args, at |-> now,
                           n |-> Len(calls) + 1]]
     ELSE /\ calls' = Append(calls, [Begun(args, now) EXCEPT !.reqs = 1])
          /\ flight' = [flight EXCEPT ![s] =
                          Computing(args, now, now, Answer(upstream, args), Len(calls) + 1)]
  /\ UNCHANGED << cache, now >>

\* The body of a session ends next when no other body ends before it.
Earliest(s) ==
  \A o \in DOMAIN flight : flight[o].phase = "compute" => flight[s].wake <= flight[o].wake

\* The body of session s ends: the response has arrived and, on the success
\* path, the sleep is over (line 70), on the failure path the notice is
\* shown (line 74).  The value the body returns (lines 71, 75) is written
\* to the cache at that time; the call has yet to return.  An exception that
\* leaves the body leaves the call, and nothing is written.
Complete(s) ==
  LET f == flight[s]
  IN /\ f.phase = "compute"
     /\ Earliest(s)
     /\ now' = f.wake
     /\ IF f.result.exc = "none"
        THEN /\ cache' = Store(cache, KeyOf(f.args), f.result, f.wake)
             /\ calls' = [calls EXCEPT ![f.n] =
                            [@ EXCEPT !.wrote = f.wake, !.value = f.result.df,
                                      !.notices = f.result.notices]]
             /\ flight' = [flight EXCEPT ![s] = Leaving(f.args, f.n, f.result.df, 0)]
        ELSE /\ cache' = cache
             /\ calls' = [calls EXCEPT ![f.n] =
                            [@ EXCEPT !.ended = "raised", !.exc = f.result.exc,
                                      !.done = f.wake]]
             /\ flight' = [flight EXCEPT ![s] = Idle]

\* The call returns to its caller: a hit has shown the stored notices again,
\* and the spinner of the cache is cleared.
Leave(s) ==
  LET f == flight[s]
  IN /\ f.phase = "exit"
     /\ calls' = [calls EXCEPT ![f.n] =
                    [@ EXCEPT !.ended = "returned", !.done = now, !.ret = f.df,
                              !.notices = @ + f.replay]]
     /\ flight' = [flight EXCEPT ![s] = Idle]
     /\ UNCHANGED << cache, now >>

\* st.error (line 74) is where a run of the script ends when the user has
\* changed a widget in the meantime: Streamlit raises its control exception
\* in place of showing the notice, and the call neither returns nor writes
\* an entry.
Abandon(s) ==
  LET f == flight[s]
  IN /\ f.phase = "compute"
     /\ Earliest(s)
     /\ f.result.notices = 1
     /\ now' = f.wake
     /\ calls' = [calls EXCEPT ![f.n] = [@ EXCEPT !.ended = "rerun", !.done = f.wake]]
     /\ flight' = [flight EXCEPT ![s] = Idle]
     /\ cache' = cache

\* The run of the script ends as the call leaves: at the stored notice a hit
\* is about to show again, or where the spinner of the cache is cleared.
\* The entry a miss has written stays; the call does not return.
Cut(s) ==
  LET f == flight[s]
  IN /\ f.phase = "exit"
     /\ \E shown \in {0, f.replay} :
          calls' = [calls EXCEPT ![f.n] =
                      [@ EXCEPT !.ended = "rerun", !.done = now, !.notices = @ + shown]]
     /\ flight' = [flight EXCEPT ![s] = Idle]
     /\ UNCHANGED << cache, now >>

\* The session that computed the key is done: the waiting session reads the
\* cache again, finds a fresh entry to return and otherwise enters the body
\* itself.
Resume(s) ==
  LET f == flight[s]
  IN /\ f.phase = "lock"
     /\ ~ Locked(flight, s, KeyOf(f.args))
     /\ IF Served(cache, KeyOf(f.args), now)
        THEN /\ calls' = [calls EXCEPT ![f.n] = [@ EXCEPT !.served = TRUE]]
             /\ flight' = [flight EXCEPT ![s] =
                             Leaving(f.args, f.n, cache[KeyOf(f.args)].value,
                                     cache[KeyOf(f.args)].msgs)]
        ELSE /\ calls' = [calls EXCEPT ![f.n] = [@ EXCEPT !.reqs = 1]]
             /\ flight' = [flight EXCEPT ![s] =
                             Computing(f.args, f.at, now, Answer(upstream, f.args), f.n)]
     /\ UNCHANGED << cache, now >>

-----------------------------------------------------------------------------
(* Direct calls of obtener_datos_fmi *)

\* One call on an empty cache, the API's answer fixed.
FetchOnce ==
  /\ pc = "idle"
  /\ begun = 0
  /\ begun' = begun + 1
  /\ \E s \in DOMAIN flight, args \in argset : Start(s, args)
  /\ UNCHANGED << upstream, fixed, ticks, scriptvars >>

BodyEnds ==
  /\ pc = "idle"
  /\ \E s \in DOMAIN flight : Complete(s)
  /\ UNCHANGED << upstream, fixed, ticks, begun, scriptvars >>

Return ==
  /\ pc = "idle"
  /\ \E s \in DOMAIN flight : Leave(s)
  /\ UNCHANGED << upstream, fixed, ticks, begun, scriptvars >>

\* The caller is a script run that a rerun or a stop ends inside the call.
Interrupted ==
  /\ pc = "idle"
  /\ Cardinality({ i \in 1..Len(calls) : calls[i].ended = "rerun" }) < MaxInterrupts
  /\ \E s \in DOMAIN flight : Abandon(s) \/ Cut(s)
  /\ UNCHANGED << upstream, fixed, ticks, begun, scriptvars >>

InitFetch ==
  /\ upstream \in { [serve |-> "fixed", resp |-> r] : r \in FetchResponses }
  /\ argset = FetchArgs
  /\ expiry \in {"exclusive", "inclusive"}
  /\ cache = << >>
  /\ now = 0
  /\ ticks = 0
  /\ begun = 0
  /\ flight = [s \in {"A"} |-> Idle]
  /\ calls = << >>
  /\ pc = "idle"
  /\ panel = 1
  /\ bloque = << >>
  /\ pass = 0
  /\ paises_seleccionados = << >>
  /\ anio_inicio = 2020
  /\ anio_fin = 2022
  /\ out = NoOut

NextFetch == FetchOnce \/ BodyEnds \/ Return \/ Interrupted

SpecFetch == InitFetch /\ [][NextFetch]_vars

-----------------------------------------------------------------------------
(* Calls of two sessions spread over time, the API changing between them *)


\* The API with its figures, down and slow to fail, and back with revised
\* figures and slower.
World(revision, how, lag) ==
  [serve |-> "catalog", revision |-> revision, scope |-> "ALL",
   fault |-> [i \in {"MX", "US"} |-> how], lag |-> lag]
CacheWorlds == { World(0, "ok", 0), World(0, "down", LagMs), World(1, "ok", LagMs) }

\* A behaviour calls with one tuple and with one that differs from it in a
\* single argument.
CacheArgs ==
  { { << "US", "NGDP_R", 2020, 2021 >>, v } :
      v \in { << "MX", "NGDP_R", 2020, 2021 >>, << "US", "PCPI", 2020, 2021 >>,
              << "US", "NGDP_R", 2021, 2021 >>, << "US", "NGDP_R", 2020, 2022 >> } }

\* A session calls.  The sessions are alike: of two idle ones, A calls.
CallCached ==
  /\ pc = "idle"
  /\ begun < MaxCalls
  /\ begun' = begun + 1
  /\ \E s \in DOMAIN flight, args \in argset :
       /\ s = "B" => flight["A"].phase # "idle"
       /\ Start(s, args)
  /\ UNCHANGED << upstream, fixed, ticks, scriptvars >>

LockReleased ==
  /\ pc = "idle"
  /\ \E s \in DOMAIN flight : Resume(s)
  /\ UNCHANGED << upstream, fixed, ticks, begun, scriptvars >>

\* The clock advances between the steps of the sessions and between runs of
\* the script, by the length of the sleep or by that much less than the
\* ttl; it does not pass the end of a body, a
\* session that waited for a key reads the cache at the time the key is
\* released, and a call that has its value returns at once.
Tick ==
  /\ pc \in {"idle", "done", "aborted"}
  /\ ticks < MaxTicks
  /\ \A s \in DOMAIN flight :
       /\ flight[s].phase = "lock" => Locked(flight, s, KeyOf(flight[s].args))
       /\ flight[s].phase # "exit"
  /\ \E d \in {SleepMs, Ms(TTL) - SleepMs} :
       /\ \A s \in DOMAIN flight : flight[s].phase = "compute" => now + d <= flight[s].wake
       /\ now' = now + d
  /\ ticks' = ticks + 1
  /\ UNCHANGED << upstream, fixed, cache, begun, flight, calls, scriptvars >>

\* The API goes down, and comes back with revised figures.
UpstreamChange ==
  /\ pc = "idle"
  /\ \/ upstream = World(0, "ok", 0) /\ upstream' = World(0, "down", LagMs)
     \/ upstream = World(0, "down", LagMs) /\ upstream' = World(1, "ok", LagMs)
  /\ UNCHANGED << fixed, cache, now, ticks, begun, flight, calls, scriptvars >>

InitCache ==
  /\ upstream \in CacheWorlds
  /\ argset \in CacheArgs
  /\ expiry \in {"exclusive", "inclusive"}
  /\ cache = << >>
  /\ now = 0
  /\ ticks = 0
  /\ begun = 0
  /\ flight = [s \in {"A", "B"} |-> Idle]
  /\ calls = << >>
  /\ pc = "idle"
  /\ panel = 1
  /\ bloque = << >>
  /\ pass = 0
  /\ paises_seleccionados = << >>
  /\ anio_inicio = 2020
  /\ anio_fin = 2021
  /\ out = NoOut

NextCache ==
  CallCached \/ BodyEnds \/ Return \/ Interrupted \/ LockReleased \/ Tick \/ UpstreamChange

SpecCache == InitCache /\ [][NextCache]_vars

-----------------------------------------------------------------------------
(* crear_grafico_comparativo (lines 77-99) *)

\* df.pivot(index="Año", columns="País", values="Valor") raises ValueError
\* when two rows share year and country (line 99).
PivotRaises(df) ==
  \E i, j \in 1..Len(df) : i # j /\ df[i].Anio = df[j].Anio /\ df[i].Pais = df[j].Pais

\* What the function has put on the page when st.plotly_chart has returned
\* (lines 78-95): the warning and nothing else for an empty df, and it
\* returns; otherwise the chart.  The expander (line 98) and the pivot table
\* in it (line 99) follow, show_table being left at its default.
crear_grafico_comparativo(df, titulo, tipo, unidad) ==
  IF df = << >>
  THEN [warning |-> TRUE, chart |-> FALSE, fig |-> "none", rows |-> << >>,
        title |-> << titulo, unidad >>]
  ELSE [warning |-> FALSE, chart |-> TRUE,
        fig |-> IF tipo = "line" THEN "line" ELSE "bar",
        rows |-> df, title |-> << titulo, unidad >>]

-----------------------------------------------------------------------------
(* The panel blocks of the script (lines 129-293) *)

\* Indicator code, title, chart type and unit of each block of the common
\* shape; block 4 is the trade balance.
PanelDef(p) ==
  CASE p = 1  -> [codigo |-> "NGDP_R",   titulo |-> "Evolución del PIB", tipo |-> "bar", unidad |-> "USD"]
    [] p = 2  -> [codigo |-> "NGDPDPC",  titulo |-> "PIB per cápita", tipo |-> "bar", unidad |-> "USD"]
    [] p = 3  -> [codigo |-> "PCPI",     titulo |-> "Tasa de Inflación", tipo |-> "line", unidad |-> "%"]
    [] p = 5  -> [codigo |-> "BCA",      titulo |-> "Cuenta Corriente", tipo |-> "line", unidad |-> "% PIB"]
    [] p = 6  -> [codigo |-> "RAXG",     titulo |-> "Reservas Internacionales", tipo |-> "bar", unidad |-> "USD"]
    [] p = 7  -> [codigo |-> "FPOLM_PA", titulo |-> "Tasas de Interés", tipo |-> "line", unidad |-> "%"]
    [] p = 8  -> [codigo |-> "GGXWDG",   titulo |-> "Deuda Pública", tipo |-> "bar", unidad |-> "% PIB"]
    [] p = 9  -> [codigo |-> "GGXONLB",  titulo |-> "Déficit Fiscal", tipo |-> "bar", unidad |-> "% PIB"]
    [] p = 10 -> [codigo |-> "GGX",      titulo |-> "Gasto Público", tipo |-> "bar", unidad |-> "% PIB"]
    [] p = 11 -> [codigo |-> "LUR",      titulo |-> "Tasa de Desempleo", tipo |-> "bar", unidad |-> "%"]
    [] p = 12 -> [codigo |-> "FDI",      titulo |-> "Inversión Extranjera Directa", tipo |-> "bar", unidad |-> "USD"]
LastPanel == 12
BalanzaPanel == 4

\* df["País"] = PAISES[pais]["nombre"] (line 135).
Tagged(df, pais) ==
  [i \in 1..Len(df) |-> [Anio |-> df[i].Anio, Valor |-> df[i].Valor, Pais |-> PAISES[pais].nombre]]

\* Lines 134-136: a non-empty df is tagged and appended to the list.
AgregarAlFrente(lista, df, pais) == IF df = << >> THEN lista ELSE << Tagged(df, pais) >> \o lista
Agregar(lista, df, pais) == IF df = << >> THEN lista ELSE Append(lista, Tagged(df, pais))

\* pd.concat(lista): the rows of the frames, frame after frame.
RECURSIVE Concat(_)
Concat(lista) == IF Len(lista) = 0 THEN << >> ELSE lista[1] \o Concat(Tail(lista))

\* Lines 175-180: a country with both frames non-empty enters the list with
\* the first value of each.
AgregarBalanza(lista, df_export, df_import, pais) ==
  IF df_export # << >> /\ df_import # << >>
  THEN Append(lista, [Pais |-> PAISES[pais].nombre,
                      Exportaciones |-> df_export[1].Valor,
                      Importaciones |-> df_import[1].Valor])
  ELSE lista

\* df_balanza.melt(id_vars="País", var_name="Tipo", value_name="Valor") (line
\* 184): the Exportaciones of every country, then the Importaciones.
Melt(lista) ==
  [i \in 1..Len(lista) |-> [Pais |-> lista[i].Pais, Tipo |-> "Exportaciones", Valor |-> lista[i].Exportaciones]]
  \o
  [i \in 1..Len(lista) |-> [Pais |-> lista[i].Pais, Tipo |-> "Importaciones", Valor |-> lista[i].Importaciones]]

\* The for loop of a block (lines 131-136, 169-180): the country it is at,
\* the call it is at for that country, the list built so far and, in the
\* trade balance, the exports frame of the country.
Inicio(p) ==
  [n |-> 1, fase |-> IF p = BalanzaPanel THEN "export" ELSE "serie",
   lista |-> << >>, df_export |-> << >>]

\* The arguments of the call the loop is at (lines 133, 172, 173): the trade
\* balance asks for the end year alone.
Argumentos(p, b) ==
  CASE b.fase = "export" ->
         << PAISES[paises_seleccionados[b.n]].iso2, "TXG_FOB_USD", anio_fin, anio_fin >>
    [] b.fase = "import" ->
         << PAISES[paises_seleccionados[b.n]].iso2, "TMG_CIF_USD", anio_fin, anio_fin >>
    [] OTHER ->
         << PAISES[paises_seleccionados[b.n]].iso2, PanelDef(p).codigo, anio_inicio, anio_fin >>

\* The loop after the call returned df (lines 134-136, 175-180).
Recibir(b, df) ==
  CASE b.fase = "export" -> [b EXCEPT !.fase = "import", !.df_export = df]
    [] b.fase = "import" ->
         [n |-> b.n + 1, fase |-> "export",
          lista |-> AgregarBalanza(b.lista, b.df_export, df, paises_seleccionados[b.n]),
          df_export |-> << >>]
    [] OTHER -> [b EXCEPT !.n = @ + 1,
                          !.lista = Agregar(@, df, paises_seleccionados[b.n])]

\* Where the script goes after a call returned: the loop goes on with the
\* next call, and after its last one the block draws.
Seguir(b) == IF b.n > Len(paises_seleccionados) THEN "chart" ELSE "loop"

\* What a block has put on the page below its header when its chart call
\* has returned: the expander and the table in it are yet to come.
PanelOut(p, g, recs) ==
  [kind |-> "panel", panel |-> p, warning |-> g.warning, chart |-> g.chart, fig |-> g.fig,
   rows |-> g.rows, title |-> g.title, expander |-> FALSE, table |-> FALSE,
   errors |-> Cardinality({i \in 1..Len(recs) : recs[i].notices > 0})]
Nothing == [warning |-> FALSE, chart |-> FALSE, fig |-> "none", rows |-> << >>,
            title |-> << >>]

\* st.header of a block (e.g. line 129), and the empty list of line 131.  The
\* loop has nothing to do for an empty selection.
Header ==
  /\ pc = "header"
  /\ out' = [kind |-> "header", panel |-> panel]
  /\ calls' = << >>
  /\ bloque' = Inicio(panel)
  /\ pc' = IF paises_seleccionados = << >> THEN "chart" ELSE "loop"
  /\ UNCHANGED << upstream, fixed, cache, now, ticks, begun, flight, panel, pass,
                  paises_seleccionados, anio_inicio, anio_fin >>

\* The loop calls obtener_datos_fmi (lines 133, 172, 173): a hit has the
\* value to return, a miss sends the request.
Llamada ==
  /\ pc = "loop"
  /\ Start("A", Argumentos(panel, bloque))
  /\ pc' = IF Served(cache, KeyOf(Argumentos(panel, bloque)), now) THEN "exit" ELSE "wait"
  /\ UNCHANGED << upstream, fixed, ticks, begun, panel, bloque, pass,
                  paises_seleccionados, anio_inicio, anio_fin, out >>

\* The body of the call ends and its value is written to the cache; an
\* exception that leaves the call ends the run.
Cuerpo ==
  /\ pc = "wait"
  /\ Complete("A")
  /\ pc' = IF flight["A"].result.exc = "none" THEN "exit" ELSE "aborted"
  /\ UNCHANGED << upstream, fixed, ticks, begun, panel, bloque, pass,
                  paises_seleccionados, anio_inicio, anio_fin, out >>

\* The call returns to the loop.
Retorno ==
  /\ pc = "exit"
  /\ Leave("A")
  /\ bloque' = Recibir(bloque, flight["A"].df)
  /\ pc' = Seguir(Recibir(bloque, flight["A"].df))
  /\ UNCHANGED << upstream, fixed, ticks, begun, panel, pass,
                  paises_seleccionados, anio_inicio, anio_fin, out >>

\* After a block: the next block, or the footer after the last one.
Advance ==
  IF panel = LastPanel THEN pc' = "footer" /\ panel' = panel
  ELSE pc' = "header" /\ panel' = panel + 1

\* Lines 138-139: the chart helper is called when the list is not empty.
Graficar(d, lista) ==
  IF lista # << >>
  THEN crear_grafico_comparativo(Concat(lista), d.titulo, d.tipo, d.unidad)
  ELSE Nothing

\* Lines 182-187: the grouped bars of the melted list, when the selection
\* (line 167) and the list are not empty.
GraficarBalanza(lista) ==
  IF paises_seleccionados # << >> /\ lista # << >>
  THEN [warning |-> FALSE, chart |-> TRUE, fig |-> "bar", rows |-> Melt(lista),
        title |-> << "Balanza Comercial", anio_fin >>]
  ELSE Nothing

\* The end of a block of the common shape (e.g. lines 138-139) as far as
\* st.plotly_chart (line 95): with the chart on the page the helper goes on
\* to the expander, without one the block is over.
Panel ==
  /\ pc = "chart"
  /\ panel # BalanzaPanel
  /\ out' = PanelOut(panel, Graficar(PanelDef(panel), bloque.lista), calls)
  /\ IF Graficar(PanelDef(panel), bloque.lista).chart
     THEN pc' = "expander" /\ panel' = panel
     ELSE Advance
  /\ UNCHANGED << upstream, fixed, cache, now, ticks, begun, flight, calls, bloque, pass,
                  paises_seleccionados, anio_inicio, anio_fin >>

\* st.expander (line 98) opens below the chart.
Expander ==
  /\ pc = "expander"
  /\ out' = [out EXCEPT !.expander = TRUE]
  /\ pc' = "table"
  /\ UNCHANGED << upstream, fixed, cache, now, ticks, begun, flight, calls, panel, bloque,
                  pass, paises_seleccionados, anio_inicio, anio_fin >>

\* Line 99: the pivot is computed and st.dataframe shows it; the ValueError
\* of the pivot leaves the helper and ends the run, the chart and the empty
\* expander on the page.
Tabla ==
  /\ pc = "table"
  /\ IF PivotRaises(out.rows)
     THEN pc' = "aborted" /\ panel' = panel /\ out' = out
     ELSE out' = [out EXCEPT !.table = TRUE] /\ Advance
  /\ UNCHANGED << upstream, fixed, cache, now, ticks, begun, flight, calls, bloque, pass,
                  paises_seleccionados, anio_inicio, anio_fin >>

\* The end of the trade balance (lines 182-187).
PanelBalanza ==
  /\ pc = "chart"
  /\ panel = BalanzaPanel
  /\ out' = PanelOut(panel, GraficarBalanza(bloque.lista), calls)
  /\ Advance
  /\ UNCHANGED << upstream, fixed, cache, now, ticks, begun, flight, calls, bloque, pass,
                  paises_seleccionados, anio_inicio, anio_fin >>

\* The rule of the footer (line 288).
Footer ==
  /\ pc = "footer"
  /\ pc' = "info"
  /\ out' = [kind |-> "footer", info |-> FALSE]
  /\ calls' = << >>
  /\ UNCHANGED << upstream, fixed, cache, now, ticks, begun, flight, panel, bloque, pass,
                  paises_seleccionados, anio_inicio, anio_fin >>

\* The note of the footer (lines 289-293) ends the run.
Info ==
  /\ pc = "info"
  /\ pc' = "done"
  /\ out' = [kind |-> "footer", info |-> TRUE]
  /\ UNCHANGED << upstream, fixed, cache, now, ticks, begun, flight, calls, panel, bloque,
                  pass, paises_seleccionados, anio_inicio, anio_fin >>

\* The lists the multiselect can hold: the countries in the order they were
\* picked, none twice.
Selections ==
  { << >>, << "MEX" >>, << "USA" >>, << "MEX", "USA" >>, << "USA", "MEX" >> }

\* One change of the multiselect: a country removed, or one added at the end.
Edited(sel) ==
  { SelectSeq(sel, LAMBDA x : x # p) : p \in { sel[i] : i \in 1..Len(sel) } }
  \cup { Append(sel, p) : p \in DOMAIN PAISES \ { sel[i] : i \in 1..Len(sel) } }

\* The ranges the slider can hold, within the years of the model, and one
\* move of it (lines 118-123).
SliderYears == 2020..2021
Moved(inicio, fin) ==
  { r \in SliderYears \X SliderYears : r[1] <= r[2] } \ { << inicio, fin >> }

\* The script runs again, from the top, after the user changed the
\* selection, moved the slider or asked for a rerun (lines 111-123).  A
\* run in progress ends where the script next touches the page: at a
\* header, at a call (the spinner of the cache), at st.error in a call that
\* failed, where a call leaves (the stored notice of a hit, the spinner), at
\* a chart, at the expander, at a table whose pivot did not raise, at the
\* rule and the note of the footer; it does not end while the call waits
\* for the response or sleeps.  A call the run was in is given up: at
\* st.error without an entry, as it leaves with the entry it wrote.
Rerun ==
  /\ \/ pc \in {"header", "loop", "exit", "chart", "expander", "footer", "info", "done",
                 "aborted"}
     \/ pc = "wait" /\ flight["A"].result.notices = 1
     \/ pc = "table" /\ ~ PivotRaises(out.rows)
  /\ pass < MaxPasses
  /\ pass' = pass + 1
  /\ \/ /\ paises_seleccionados' \in Edited(paises_seleccionados)
        /\ UNCHANGED << anio_inicio, anio_fin >>
     \/ /\ \E r \in Moved(anio_inicio, anio_fin) : anio_inicio' = r[1] /\ anio_fin' = r[2]
        /\ UNCHANGED paises_seleccionados
     \/ UNCHANGED << paises_seleccionados, anio_inicio, anio_fin >>
  /\ now' = IF pc = "wait" THEN flight["A"].wake ELSE now
  /\ flight' = [s \in DOMAIN flight |-> Idle]
  /\ pc' = "header"
  /\ panel' = 1
  /\ bloque' = Inicio(1)
  /\ calls' = << >>
  /\ out' = NoOut
  /\ UNCHANGED << upstream, fixed, cache, ticks, begun >>

\* The API as the script meets it: per country a treatment of its requests,
\* for one indicator or for all of them.
RenderFaults ==
  { [MX |-> f[1], US |-> f[2]] :
      f \in { << "ok", "ok" >>, << "down", "ok" >>, << "down", "down" >>, << "empty", "ok" >>,
              << "ok", "history" >>, << "ok", "padded" >> } }
RenderWorlds ==
  { [serve |-> "catalog", revision |-> 0, scope |-> "ALL", fault |-> f, lag |-> 0] :
      f \in RenderFaults }
  \cup { [serve |-> "catalog", revision |-> 0, scope |-> "NGDP_R", lag |-> LagMs,
          fault |-> [MX |-> "down", US |-> "padded"]],
         [serve |-> "catalog", revision |-> 0, scope |-> "TMG_CIF_USD", lag |-> LagMs,
          fault |-> [MX |-> "empty", US |-> "history"]] }

InitRender ==
  /\ upstream \in RenderWorlds
  /\ argset = {}
  /\ expiry \in {"exclusive", "inclusive"}
  /\ cache = << >>
  /\ now = 0
  /\ ticks = 0
  /\ begun = 0
  /\ flight = [s \in {"A"} |-> Idle]
  /\ calls = << >>
  /\ pc = "header"
  /\ panel = 1
  /\ bloque = Inicio(1)
  /\ pass = 1
  /\ paises_seleccionados \in Selections
  /\ anio_inicio = 2020
  /\ anio_fin = 2021
  /\ out = NoOut

NextRender ==
  \/ Header \/ Llamada \/ Cuerpo \/ Retorno \/ Panel \/ Expander \/ Tabla \/ PanelBalanza
  \/ Footer \/ Info \/ Rerun \/ Tick

SpecRender == InitRender /\ [][NextRender]_vars

-----------------------------------------------------------------------------
(* Properties of obtener_datos_fmi *)

SameArgs(i, j) == calls[i].args = calls[j].args

\* Call i ran the body and wrote its result, at the time calls[i].wrote.
Stored(i) == calls[i].wrote >= 0

\* Call j began less than 3600 seconds after call i wrote its entry, and not
\* before.
Within(i, j) ==
  calls[i].wrote <= calls[j].at /\ calls[j].at - calls[i].wrote < 3600 * 1000

\* C1: a call made less than 3600 seconds after a call with the identical
\* argument tuple wrote its entry performs no network request and returns,
\* when it returns, the value of that entry, which is the result the writing
\* call returned if it returned, whichever session makes it; and a call is
\* served from the cache only with an entry that a call with the identical
\* argument tuple wrote.
C1_HitWithinTtlIsIdempotent ==
  \A j \in 1..Len(calls) :
    /\ \A i \in 1..Len(calls) :
         (i # j /\ SameArgs(i, j) /\ Stored(i) /\ Within(i, j))
           => /\ calls[j].reqs = 0
              /\ calls[j].ended = "returned" => calls[j].ret = calls[i].value
              /\ calls[i].ended = "returned" => calls[i].ret = calls[i].value
    /\ calls[j].served =>
         \E i \in 1..Len(calls) :
           /\ i # j /\ SameArgs(i, j) /\ Stored(i)
           /\ calls[j].ended = "returned" => calls[j].ret = calls[i].value

\* Three identical calls.  The script run that made the first was ended as
\* the call left, after the entry was written: the call returned nothing.
\* The second returned the rows of that entry without a request, and so
\* did the third, 3599.5 seconds after the entry was written, although the
\* API has gone down.
C1_Witness ==
  /\ Len(calls) = 3
  /\ SameArgs(1, 2) /\ SameArgs(1, 3)
  /\ calls[1].reqs = 1 /\ calls[1].wrote = calls[1].at + 500
  /\ calls[1].value # << >> /\ calls[1].ended = "rerun"
  /\ calls[2].reqs = 0 /\ calls[2].ended = "returned" /\ calls[2].ret = calls[1].value
  /\ calls[3].at = calls[1].wrote + 3600 * 1000 - 500
  /\ calls[3].reqs = 0 /\ calls[3].ended = "returned" /\ calls[3].ret = calls[2].ret
  /\ upstream.fault["US"] = "down"

\* C2 as the specification states it: once 3600 seconds have passed since an
\* entry was written, the next call with the identical tuple performs exactly
\* one network request, and its result replaces the entry: it is the one
\* served, without a request, to the identical calls that follow it and
\* began less than 3600 seconds after it was written, the calls of another
\* session that began meanwhile included.
C2_ExpiredEntryIsRefetchedOnce ==
  \A i, j \in 1..Len(calls) :
    ( /\ i # j /\ SameArgs(i, j) /\ Stored(i)
      /\ calls[j].at - calls[i].wrote >= 3600 * 1000
      /\ \A m \in 1..(j - 1) :
           (m # i /\ SameArgs(i, m)) => calls[m].at - calls[i].wrote < 3600 * 1000 )
    => /\ calls[j].reqs = 1
       /\ calls[j].ended = "returned" => (Stored(j) /\ calls[j].value = calls[j].ret)
       /\ \A k \in (j + 1)..Len(calls) :
            (SameArgs(j, k) /\ Stored(j) /\ calls[k].at - calls[j].wrote < 3600 * 1000)
              => /\ calls[k].reqs = 0
                 /\ calls[k].ended = "returned" => calls[k].ret = calls[j].value

\* C2, amended: once more than 3600 seconds have passed since an entry was
\* written, the next call with the identical tuple performs exactly one
\* network request, and its result replaces the entry: it is the one served,
\* without a request, to the identical calls that follow it and began less
\* than 3600 seconds after it was written, the calls of another session that
\* began meanwhile included.  At 3600 seconds exactly the installed
\* cachetools decides whether the entry is still served.
C2_EntryPastTtlIsRefetchedOnce ==
  \A i, j \in 1..Len(calls) :
    ( /\ i # j /\ SameArgs(i, j) /\ Stored(i)
      /\ calls[j].at - calls[i].wrote > 3600 * 1000
      /\ \A m \in 1..(j - 1) :
           (m # i /\ SameArgs(i, m)) => calls[m].at - calls[i].wrote < 3600 * 1000 )
    => /\ calls[j].reqs = 1
       /\ calls[j].ended = "returned" => (Stored(j) /\ calls[j].value = calls[j].ret)
       /\ \A k \in (j + 1)..Len(calls) :
            (SameArgs(j, k) /\ Stored(j) /\ calls[k].at - calls[j].wrote < 3600 * 1000)
              => /\ calls[k].reqs = 0
                 /\ calls[k].ended = "returned" => calls[k].ret = calls[j].value

\* Three identical calls: a miss; a miss 7199 seconds after the entry of the
\* first was written, which fetched revised figures; and a call of the other
\* session that began while the second was in its body and returned the
\* revised figures without a request.
C2_Witness ==
  /\ Len(calls) = 3
  /\ SameArgs(1, 2) /\ SameArgs(2, 3)
  /\ calls[1].reqs = 1 /\ calls[1].ended = "returned" /\ calls[1].ret # << >>
  /\ calls[2].at - calls[1].wrote > 3600 * 1000
  /\ calls[2].reqs = 1 /\ calls[2].ended = "returned"
  /\ calls[2].ret # calls[1].ret /\ calls[2].ret # << >>
  /\ calls[3].at < calls[2].wrote
  /\ calls[3].reqs = 0 /\ calls[3].ended = "returned" /\ calls[3].ret = calls[2].ret

\* C10: the result of a failed fetch is cached as well: less than 3600
\* seconds after a call that failed, showed its notice and wrote the empty
\* result, which it returned if it returned, a call with the identical tuple
\* performs no network request and returns the empty result, the notice
\* shown again.
C10_FailedFetchIsCached ==
  \A i, j \in 1..Len(calls) :
    ( /\ i # j /\ SameArgs(i, j)
      /\ calls[i].reqs = 1 /\ calls[i].notices = 1 /\ Stored(i) /\ calls[i].value = << >>
      /\ Within(i, j) )
    => /\ calls[i].ended = "returned" => calls[i].ret = << >>
       /\ calls[j].reqs = 0
       /\ calls[j].ended = "returned" => (calls[j].ret = << >> /\ calls[j].notices = 1)

\* The API was down at the first call and is back at the second, 3599.5
\* seconds after the first returned: the second call makes no request and
\* returns nothing.
C10_Witness ==
  /\ Len(calls) >= 2
  /\ SameArgs(1, 2)
  /\ calls[1].reqs = 1 /\ calls[1].notices = 1 /\ calls[1].ended = "returned"
  /\ calls[1].ret = << >>
  /\ calls[2].at = calls[1].done + 3600 * 1000 - 500
  /\ calls[2].reqs = 0 /\ calls[2].ended = "returned" /\ calls[2].ret = << >>
  /\ upstream.fault["US"] = "ok" /\ upstream.fault["MX"] = "ok"

\* The member of an object under a name, and whether it has one.
C3_Has(node, name) == node.t = "obj" /\ \E i \in 1..Len(node.items) : node.items[i].k = name
C3_Member(node, name) == node.items[CHOOSE i \in 1..Len(node.items) : node.items[i].k = name].v
C3_Text(name) ==
  CASE name = "US" -> <<"U", "S">> [] name = "MX" -> <<"M", "X">>
    [] name = "NGDP_R" -> <<"N", "G", "D", "P", "_", "R">>
    [] name = "PCPI" -> <<"P", "C", "P", "I">>

\* The failure modes of a response to a call, read off the response: the
\* body has values[indicator][country] and it is not null.
C3_HasPath(resp, args) ==
  /\ resp.json
  /\ C3_Has(resp.data, <<"v", "a", "l", "u", "e", "s">>)
  /\ C3_Has(C3_Member(resp.data, <<"v", "a", "l", "u", "e", "s">>), C3_Text(args[2]))
  /\ C3_Has(C3_Member(C3_Member(resp.data, <<"v", "a", "l", "u", "e", "s">>), C3_Text(args[2])),
            C3_Text(args[1]))
C3_Series(resp, args) ==
  C3_Member(C3_Member(C3_Member(resp.data, <<"v", "a", "l", "u", "e", "s">>), C3_Text(args[2])),
            C3_Text(args[1]))
\* The year keys of the responses that are no integer of the index: one
\* with a letter, one beyond 64 bits, one of more than 4300 digits.
C3_BadYearKey(k) ==
  \/ k = <<"2", "O", "2", "1">>
  \/ k = <<"9", "2", "2", "3", "3", "7", "2", "0", "3", "6", "8", "5", "4", "7", "7", "5", "8",
           "0", "8">>
  \/ Len(k) = 4301 /\ k[1] = "2" /\ \A n \in 2..Len(k) : k[n] = "0"
C3_FailureMode(resp, args) ==
  \/ resp.transport = "down"
  \/ resp.status >= 400
  \/ ~ C3_HasPath(resp, args)
  \/ C3_Series(resp, args).t = "null"
  \/ /\ C3_Series(resp, args).t = "obj"
     /\ \E i \in 1..Len(C3_Series(resp, args).items) :
          C3_BadYearKey(C3_Series(resp, args).items[i].k)

\* C3 as the specification states it: a call whose request fails in
\* transport, gets an error status, gets a body without
\* values[indicator][country], or gets a year key that is no integer shows
\* exactly one error notice, returns the empty result and lets no exception
\* out to its caller, whatever the year range.
C3_EveryFailureIsOneNoticeAndEmpty ==
  \A i \in 1..Len(calls) :
    (C3_FailureMode(upstream.resp, calls[i].args) /\ calls[i].ended # "no")
      => /\ calls[i].notices = 1
         /\ calls[i].ended = "returned" /\ calls[i].ret = << >>
         /\ calls[i].exc = "none"

\* C3, amended: such a call sends its one request and no exception of the
\* fetch leaves it.  When it returns it has shown exactly one error notice
\* and returns the empty result, which is the entry it wrote.  It does not
\* return when Streamlit ends the script run inside it: at st.error, the
\* notice not shown and no entry written, or as the call leaves, the notice
\* shown and the empty result written.
C3_FailureIsOneNoticeAndEmptyOrRunEnds ==
  \A i \in 1..Len(calls) :
    C3_FailureMode(upstream.resp, calls[i].args)
      => /\ calls[i].reqs = 1
         /\ calls[i].ended # "raised" /\ calls[i].exc = "none"
         /\ calls[i].ended = "returned" =>
              (calls[i].notices = 1 /\ calls[i].ret = << >> /\ Stored(i))
         /\ calls[i].ended = "rerun" =>
              (calls[i].notices = (IF Stored(i) THEN 1 ELSE 0) /\ calls[i].ret = << >>)
         /\ Stored(i) => (calls[i].value = << >> /\ calls[i].notices = 1)

\* A series whose second year key is "2O21" and whose values are all
\* numeric, requested with an inverted year range: the call has returned.
C3_Witness ==
  /\ Len(calls) = 1
  /\ calls[1].args = << "US", "NGDP_R", 2022, 2020 >>
  /\ upstream.resp.status = 200
  /\ C3_HasPath(upstream.resp, calls[1].args)
  /\ C3_Series(upstream.resp, calls[1].args).items =
       << Entry(<<"2", "0", "2", "0">>, JStr(<<"1", "0", "0">>)),
          Entry(<<"2", "O", "2", "1">>, JNum(<<"1", ".", "5", "E", "2">>)) >>
  /\ calls[1].ended = "returned"
  /\ calls[1].notices = 1 /\ calls[1].ret = << >> /\ calls[1].exc = "none"

\* The number i + tenths/10.
C4_Fixed(i, tenths) == i * Pow10(FracDigits) + tenths * Pow10(FracDigits - 1)

\* The scalar values of the responses.  "number": a JSON number or a numeric
\* string within the range of a double; "infinite": a JSON number with a
\* fraction or an exponent beyond that range; "beyond": a numeric string
\* beyond it; "fatal": a JSON integer beyond it, or of more than 4300
\* digits; "other": null and the strings that are no number.
C4_Class(v) ==
  CASE v \in { JNum(<<"1", ".", "5", "E", "2">>), JNum(<<"1", "e", "3">>), JNum(<<"1">>),
               JNum(<<"2">>), JNum(<<"3">>), JStr(<<"7">>),
               JStr(<<"1", "0", "0">>), JStr(<<"1", "0", "5", ".", "5">>),
               JStr(<<"U+000B", "+", "5", "e", "1">>) } -> "number"
    [] v = JNum(<<"2", "e", "3", "0", "8">>) -> "infinite"
    [] v.t = "num" /\ Len(v.s) = 4303 /\ v.s[4302] = "." -> "infinite"
    [] v = JStr(<<"2", "e", "3", "0", "8">>) -> "beyond"
    [] v.t = "num" /\ Len(v.s) \in {401, 4301} /\ \A n \in 2..Len(v.s) : v.s[n] = "0" -> "fatal"
    [] v \in { JNull, JStr(<<"a", "b", "c">>) } -> "other"

\* The number of a value of class "number", and the year of a key.
C4_NumberOf(v) ==
  CASE v = JNum(<<"1", ".", "5", "E", "2">>) -> C4_Fixed(150, 0)
    [] v = JNum(<<"1", "e", "3">>) -> C4_Fixed(1000, 0)
    [] v = JNum(<<"1">>) -> C4_Fixed(1, 0)
    [] v = JNum(<<"2">>) -> C4_Fixed(2, 0)
    [] v = JNum(<<"3">>) -> C4_Fixed(3, 0)
    [] v = JStr(<<"7">>) -> C4_Fixed(7, 0)
    [] v = JStr(<<"1", "0", "0">>) -> C4_Fixed(100, 0)
    [] v = JStr(<<"1", "0", "5", ".", "5">>) -> C4_Fixed(105, 5)
    [] v = JStr(<<"U+000B", "+", "5", "e", "1">>) -> C4_Fixed(50, 0)
C4_YearOf(k) ==
  CASE k = <<"2", "0", "2", "1">> -> 2021
    [] k = <<"2", "0", "2", "2">> -> 2022
    [] OTHER -> 2020
C4_IsYear(k) ==
  \/ k \in { <<"2", "0", "2", "0">>, <<"2", "0", "2", "1">>, <<"2", "0", "2", "2">>,
             <<"U+00A0", "+", "0", "2", "_", "0", "U+0662", "0">>,
             <<"U+FF12", "U+FF10", "U+FF12", "U+FF10">> }
  \/ /\ Len(k) = 4300
     /\ SubSeq(k, 4297, 4300) = <<"2", "0", "2", "0">>
     /\ \A n \in 1..4296 : k[n] = "0"

\* A well-formed response: no failure mode, and the series is an object that
\* gives each of its year keys once, with a number, a string or null.
C4_WellFormed(resp, args) ==
  /\ ~ C3_FailureMode(resp, args)
  /\ C3_Series(resp, args).t = "obj"
  /\ \A i \in 1..Len(C3_Series(resp, args).items) :
       /\ C4_IsYear(C3_Series(resp, args).items[i].k)
       /\ C3_Series(resp, args).items[i].v.t \in {"num", "str", "null"}
       /\ \A j \in 1..Len(C3_Series(resp, args).items) :
            i # j => C3_Series(resp, args).items[i].k # C3_Series(resp, args).items[j].k

\* The pairs of the items, as numbers and in the order of the response.
C4_Numeric(e) == C4_Class(e.v) \in {"number", "infinite", "beyond", "fatal"}
C4_Finite(e) == C4_Class(e.v) \in {"number", "infinite"}
C4_Fatal(e) == C4_Class(e.v) = "fatal"
C4_Pairs(kept) ==
  [n \in 1..Len(kept) |->
     [Anio |-> C4_YearOf(kept[n].k),
      Valor |-> IF C4_Class(kept[n].v) = "number" THEN Num(C4_NumberOf(kept[n].v))
                ELSE Inf(1)]]

C5_YearsInRangeAndIncreasing ==
  \A i \in 1..Len(calls) :
    LET c == calls[i] IN
    (c.args[3] <= c.args[4] /\ C4_WellFormed(upstream.resp, c.args)) =>
      /\ \A n \in 1..Len(c.ret) : c.args[3] <= c.ret[n].Anio /\ c.ret[n].Anio <= c.args[4]
      /\ \A n \in 1..(Len(c.ret) - 1) : c.ret[n].Anio < c.ret[n + 1].Anio

-----------------------------------------------------------------------------
(* Properties of the panel blocks *)

\* A block of the common shape, or the trade balance, has just run.
AfterPanel == out.kind = "panel" /\ out.panel # 4
AfterBalanza == out.kind = "panel" /\ out.panel = 4

\* C6: a panel for which no selected country produced a non-empty result,
\* the empty selection included, shows a "no data available" warning and
\* draws no chart; a chart is drawn only from at least one data row.
C6_PanelWithoutDataWarns ==
  out.kind = "panel" =>
    /\ out.rows = << >> => (out.warning /\ ~ out.chart)
    /\ out.chart => out.rows # << >>

C7_Nombre(pais) == IF pais = "MEX" THEN "México" ELSE "Estados Unidos"
C7_Codigo(p) ==
  CASE p = 1 -> "NGDP_R" [] p = 2 -> "NGDPDPC" [] p = 3 -> "PCPI" [] p = 5 -> "BCA"
    [] p = 6 -> "RAXG" [] p = 7 -> "FPOLM_PA" [] p = 8 -> "GGXWDG" [] p = 9 -> "GGXONLB"
    [] p = 10 -> "GGX" [] p = 11 -> "LUR" [] p = 12 -> "FDI"

\* The rows of the results of the calls i.., each with the name of the
\* country of the selection the call was made for.
RECURSIVE C7_RowsFrom(_)
C7_RowsFrom(i) ==
  IF i > Len(calls) THEN << >>
  ELSE [n \in 1..Len(calls[i].ret) |->
          [Anio |-> calls[i].ret[n].Anio, Valor |-> calls[i].ret[n].Valor,
           Pais |-> C7_Nombre(paises_seleccionados[i])]]
       \o C7_RowsFrom(i + 1)

C7_RepeatsAYear(df) == \E n, m \in 1..Len(df) : n # m /\ df[n].Anio = df[m].Anio

\* C7: a time-series panel fetches once per selected country, in selection
\* order, and the dataset it hands to the chart is exactly the rows of the
\* non-empty results, in selection order, each tagged with the display name
\* of its country; a country whose fetch failed or came back empty adds no
\* row and does not make the panel fail.
C7_DatasetIsRowsOfNonEmptyResults ==
  AfterPanel =>
    /\ Len(calls) = Len(paises_seleccionados)
    /\ \A i \in 1..Len(calls) :
         calls[i].args = << (IF paises_seleccionados[i] = "MEX" THEN "MX" ELSE "US"),
                            C7_Codigo(out.panel), anio_inicio, anio_fin >>
    /\ out.rows = C7_RowsFrom(1)
    /\ out.chart = (out.rows # << >>)
    /\ pc = "aborted" => \E i \in 1..Len(calls) : C7_RepeatsAYear(calls[i].ret)

\* MEX's fetch failed with a notice, USA's succeeded: the chart is drawn from
\* USA's rows alone and the script goes on.
C7_Witness ==
  /\ AfterPanel
  /\ paises_seleccionados = << "MEX", "USA" >>
  /\ calls[1].notices = 1 /\ calls[1].ret = << >>
  /\ calls[2].ret # << >>
  /\ out.chart
  /\ Len(out.rows) = Len(calls[2].ret)
  /\ \A n \in 1..Len(out.rows) : out.rows[n].Pais = "Estados Unidos"
  /\ out.table
  /\ pc = "header"

\* C8: whatever the API answers for each country and indicator, a run of the
\* script goes through the twelve panels and reaches the footer: no run ends
\* before.
C8_EveryRunReachesTheFooter == pc # "aborted"

C9_ValueOf(df, anio, valor) == \E n \in 1..Len(df) : df[n].Anio = anio /\ df[n].Valor = valor
C9_Bars(pais, tipo) ==
  { n \in 1..Len(out.rows) : out.rows[n].Pais = C7_Nombre(pais) /\ out.rows[n].Tipo = tipo }

\* C9: the trade balance fetches, for each selected country, exports and
\* imports of the end year alone; a country is in the comparison exactly
\* when both results are non-empty, with two bars whose values are the
\* fetched export and import values of that end year.
C9_BalanzaShowsEndYearValues ==
  AfterBalanza =>
    /\ Len(calls) = 2 * Len(paises_seleccionados)
    /\ \A i \in 1..Len(paises_seleccionados) :
         LET pais == paises_seleccionados[i]
             iso  == IF pais = "MEX" THEN "MX" ELSE "US"
             ex   == calls[2 * i - 1]
             im   == calls[2 * i]
         IN /\ ex.args = << iso, "TXG_FOB_USD", anio_fin, anio_fin >>
            /\ im.args = << iso, "TMG_CIF_USD", anio_fin, anio_fin >>
            /\ (ex.ret # << >> /\ im.ret # << >>)
                 = (\E n \in 1..Len(out.rows) : out.rows[n].Pais = C7_Nombre(pais))
            /\ (ex.ret # << >> /\ im.ret # << >>) =>
                 /\ Cardinality(C9_Bars(pais, "Exportaciones")) = 1
                 /\ Cardinality(C9_Bars(pais, "Importaciones")) = 1
                 /\ \A n \in C9_Bars(pais, "Exportaciones") : C9_ValueOf(ex.ret, anio_fin, out.rows[n].Valor)
                 /\ \A n \in C9_Bars(pais, "Importaciones") : C9_ValueOf(im.ret, anio_fin, out.rows[n].Valor)

====
